---- MODULE Spec2Model ----
(***************************************************************************)
(* SimpleLang front end: the lexical scanner (src/src/lexer.py) and the    *)
(* recursive-descent parser with panic-mode recovery (src/src/parser.py),  *)
(* with the token tables (src/src/tokens.py), the AST dataclasses and the  *)
(* precedence table (src/src/grammar.py) and the error sink                *)
(* (src/src/errors.py).                                                    *)
(*                                                                         *)
(* Python values that end up in AST fields are kept as tagged records      *)
(* ([class |-> "int", value |-> 5], [class |-> "TokenType", name |-> ..],  *)
(* a node record per dataclass) so that a field can hold whatever the      *)
(* constructor call puts into it.  Positions are 0-based as in the source; *)
(* sequences are 1-based, so source[position] reads source[position + 1].  *)
(***************************************************************************)
EXTENDS Integers, Sequences, FiniteSets, TLC

VARIABLES
    source,       \* Lexer.source: the text, a sequence of characters
    position,     \* Lexer.position
    line,         \* Lexer.line
    column,       \* Lexer.column
    tokens,       \* Lexer.tokens / Parser.tokens
    errors,       \* ErrorReporter.errors
    lpc,          \* where Lexer.tokenize is: "idle" (not constructed), "scan" (in the while loop), "done" (returned)
    stepFrom,     \* the cursor where the last iteration of tokenize found its character
    ppos,         \* Parser.position
    statements,   \* the local list `statements` of Parser.parse_program
    ast,          \* Parser.ast
    ppc,          \* where Parser.parse is: "idle", "loop", "sync", "done", "hang"
    syncCalls,    \* number of Parser.synchronize calls made by parse_program
    stmtStart,    \* the cursor at which the last parse_statement call of parse_program began
    warnings,     \* ErrorReporter.warnings
    apc,          \* where SimpleLangAnalyzer.analyze_source is: "idle" (no analyzer in use),
                  \* "lexing", "parsing", "returned", "between" (a client used the
                  \* analyzer's reporter after the call returned)
    result,       \* what the last analyze_source call returned (None before the first return)
    calls         \* number of analyze_source calls made on the analyzer

vars == <<source, position, line, column, tokens, errors, lpc, stepFrom,
          ppos, statements, ast, ppc, syncCalls, stmtStart, warnings, apc, result, calls>>

lexVars == <<source, position, line, column, lpc, stepFrom>>
parseVars == <<ppos, statements, ast, ppc, syncCalls, stmtStart>>
mainVars == <<warnings, apc, result, calls>>

----------------------------------------------------------------------------
(* Bounds of the model *)

\* longest source text of the general scanner specification
MaxSrcLen == 4
\* longest source text of the string-literal specification
MaxStrLen == 4
\* longest source text of the operator specification
MaxOpLen == 4
\* longest token sequence (without the EOF token) of the general parser specification
MaxTokens == 4
\* longest expression (in tokens) of the expression specification
MaxExprLen == 5

----------------------------------------------------------------------------
(* Python values *)

PyInt(n) == [class |-> "int", value |-> n]
PyStr(s) == [class |-> "str", value |-> s]
PyBool(b) == [class |-> "bool", value |-> b]
PyNone == [class |-> "NoneType"]
PyList(items) == [class |-> "list", items |-> items]
PyTokenType(name) == [class |-> "TokenType", name |-> name]

----------------------------------------------------------------------------
(* src/src/tokens.py *)

Token(type, value, tline, tcolumn) ==
    [type |-> type, value |-> value, line |-> tline, column |-> tcolumn]

\* KEYWORDS.get(value, TokenType.IDENTIFIER); value is a sequence of characters
KEYWORDS(value) ==
    CASE value = <<"i", "n", "t">> -> "INT"
      [] value = <<"b", "o", "o", "l">> -> "BOOL"
      [] value = <<"s", "t", "r", "i", "n", "g">> -> "STRING"
      [] value = <<"i", "f">> -> "IF"
      [] value = <<"e", "l", "s", "e">> -> "ELSE"
      [] value = <<"f", "o", "r">> -> "FOR"
      [] value = <<"w", "h", "i", "l", "e">> -> "WHILE"
      [] value = <<"t", "r", "u", "e">> -> "TRUE"
      [] value = <<"f", "a", "l", "s", "e">> -> "FALSE"
      [] value = <<"d", "i", "k", "h", "a", "o">> -> "PRINT"
      [] OTHER -> "IDENTIFIER"

SingleChars == {"+", "-", "*", "/", "%", "=", "<", ">", "!", ";", "{", "}", "(", ")", ","}

SINGLE_CHAR_TOKENS(c) ==
    CASE c = "+" -> "PLUS"
      [] c = "-" -> "MINUS"
      [] c = "*" -> "MULTIPLY"
      [] c = "/" -> "DIVIDE"
      [] c = "%" -> "MODULO"
      [] c = "=" -> "ASSIGN"
      [] c = "<" -> "LESS_THAN"
      [] c = ">" -> "GREATER_THAN"
      [] c = "!" -> "NOT"
      [] c = ";" -> "SEMICOLON"
      [] c = "{" -> "LEFT_BRACE"
      [] c = "}" -> "RIGHT_BRACE"
      [] c = "(" -> "LEFT_PAREN"
      [] c = ")" -> "RIGHT_PAREN"
      [] c = "," -> "COMMA"

DoubleChars == {<<"<", "=">>, <<">", "=">>, <<"=", "=">>, <<"!", "=">>,
                <<"&", "&">>, <<"|", "|">>}

DOUBLE_CHAR_TOKENS(cc) ==
    CASE cc = <<"<", "=">> -> "LESS_EQUAL"
      [] cc = <<">", "=">> -> "GREATER_EQUAL"
      [] cc = <<"=", "=">> -> "EQUAL"
      [] cc = <<"!", "=">> -> "NOT_EQUAL"
      [] cc = <<"&", "&">> -> "AND"
      [] cc = <<"|", "|">> -> "OR"

----------------------------------------------------------------------------
(* src/src/errors.py *)

\* LexicalError(message, line, column, char): char is "" when not given
LexicalError(message, eline, ecolumn, char) ==
    [kind |-> "LexicalError", message |-> message, line |-> eline,
     column |-> ecolumn, char |-> char, expected |-> "", found |-> <<>>]

\* SyntaxError(message, line, column, expected, found): found is <<>> when not
\* given, else the pair of the token's type name and value that the f-string shows
SyntaxError(message, eline, ecolumn, expected, found) ==
    [kind |-> "SyntaxError", message |-> message, line |-> eline,
     column |-> ecolumn, char |-> "", expected |-> expected, found |-> found]

\* ParseError(message, line, column)
ParseError(message, eline, ecolumn) ==
    [kind |-> "ParseError", message |-> message, line |-> eline,
     column |-> ecolumn, char |-> "", expected |-> "", found |-> <<>>]

\* ErrorReporter.report_error
report_error(errs, error) == Append(errs, error)

----------------------------------------------------------------------------
(* src/src/lexer.py *)

\* str.isspace is not used by the scanner: skip_whitespace tests `in ' \t'`
Blanks == {" ", "\t"}

\* characters for which str.isdigit() holds: the ASCII digits, and SUP2, which
\* stands for a digit character that int() rejects (U+00B2)
AsciiDigits == {"0", "1", "2", "3", "4", "5", "6", "7", "8", "9"}
isdigit(c) == c \in AsciiDigits \cup {"SUP2"}

\* characters for which str.isalpha() holds (the ASCII letters)
isalpha(c) ==
    c \in {"a", "b", "c", "d", "e", "f", "g", "h", "i", "j", "k", "l", "m",
           "n", "o", "p", "q", "r", "s", "t", "u", "v", "w", "x", "y", "z",
           "A", "B", "C", "D", "E", "F", "G", "H", "I", "J", "K", "L", "M",
           "N", "O", "P", "Q", "R", "S", "T", "U", "V", "W", "X", "Y", "Z"}

isalnum(c) == isalpha(c) \/ isdigit(c)

\* the value None returned by current_char / peek_char past the end
NoChar == "None"

\* the scanner cursor: Lexer.position, Lexer.line, Lexer.column
Cursor(p, l, c) == [position |-> p, line |-> l, column |-> c]

\* Lexer.current_char
current_char(lx) ==
    IF lx.position >= Len(source) THEN NoChar ELSE source[lx.position + 1]

\* Lexer.peek_char (offset 1)
peek_char(lx) ==
    IF lx.position + 1 >= Len(source) THEN NoChar ELSE source[lx.position + 2]

\* Lexer.advance without the newline case: the column grows and the line stays
advance_same_line(lx) ==
    IF lx.position >= Len(source) THEN lx
    ELSE Cursor(lx.position + 1, lx.line, lx.column + 1)

\* Lexer.advance
advance(lx) ==
    IF lx.position >= Len(source)
    THEN lx
    ELSE IF source[lx.position + 1] = "\n"
         THEN Cursor(lx.position + 1, lx.line + 1, 1)
         ELSE Cursor(lx.position + 1, lx.line, lx.column + 1)

\* Lexer.skip_whitespace
RECURSIVE skip_whitespace(_)
skip_whitespace(lx) ==
    IF current_char(lx) # NoChar /\ current_char(lx) \in Blanks
    THEN skip_whitespace(advance(lx))
    ELSE lx

\* the while loop of Lexer.skip_comment
RECURSIVE skip_to_eol(_)
skip_to_eol(lx) ==
    IF current_char(lx) # NoChar /\ current_char(lx) # "\n"
    THEN skip_to_eol(advance(lx))
    ELSE lx

\* Lexer.skip_comment
skip_comment(lx) ==
    IF current_char(lx) = "/" /\ peek_char(lx) = "/" THEN skip_to_eol(lx) ELSE lx

\* the result of a scanner routine: it returned `value` (ok) or raised `error`,
\* leaving the cursor at lx
Returned(lx, value) == [ok |-> TRUE, lx |-> lx, value |-> value, error |-> PyNone]
Raised(lx, error) == [ok |-> FALSE, lx |-> lx, value |-> PyNone, error |-> error]

\* the escape table of read_string_literal with the default branch reporting nothing
\* but keeping the backslash character instead
escape_keeps_backslash(next_char) ==
    CASE next_char = "n" -> "\n"
      [] next_char = "t" -> "\t"
      [] next_char = "r" -> "\r"
      [] next_char = "\\" -> "\\"
      [] next_char = "\"" -> "\""
      [] OTHER -> "\\"

\* the escape table of Lexer.read_string_literal (lines 91-102)
escape(next_char) ==
    CASE next_char = "n" -> "\n"
      [] next_char = "t" -> "\t"
      [] next_char = "r" -> "\r"
      [] next_char = "\\" -> "\\"
      [] next_char = "\"" -> "\""
      [] OTHER -> next_char

\* the while loop of Lexer.read_string_literal and what follows it
RECURSIVE string_loop(_, _, _)
string_loop(lx, value, start_col) ==
    LET char == current_char(lx) IN
    IF char = NoChar \/ char = "\""
    THEN IF char # "\""
         THEN Raised(lx, LexicalError("Unterminated string literal", lx.line, start_col, ""))
         ELSE Returned(advance(lx), PyStr(value))
    ELSE IF char = "\\"
    THEN LET lx1 == advance(lx)
             next_char == current_char(lx1)
         IN  IF next_char = NoChar
             THEN Raised(lx1, LexicalError("Unterminated string literal", lx1.line, start_col, ""))
             ELSE string_loop(advance(lx1), Append(value, escape(next_char)), start_col)
    ELSE IF char = "\n"
    THEN Raised(lx, LexicalError("Unterminated string literal", lx.line, start_col, ""))
    ELSE string_loop(advance(lx), Append(value, char), start_col)

\* Lexer.read_string_literal
read_string_literal(lx) ==
    IF current_char(lx) # "\""
    THEN Raised(lx, LexicalError("Expected '\"' at start of string", lx.line, lx.column, ""))
    ELSE string_loop(advance(lx), <<>>, lx.column)

\* int(value) for a sequence of ASCII digits
RECURSIVE int(_)
int(value) ==
    IF value = <<>> THEN 0
    ELSE 10 * int(SubSeq(value, 1, Len(value) - 1))
         + (CHOOSE d \in 0..9 : <<"0", "1", "2", "3", "4", "5", "6", "7", "8", "9">>[d + 1]
                                  = value[Len(value)])

\* the while loop of Lexer.read_number
RECURSIVE number_loop(_, _)
number_loop(lx, value) ==
    IF current_char(lx) # NoChar /\ isdigit(current_char(lx))
    THEN number_loop(advance(lx), Append(value, current_char(lx)))
    ELSE [lx |-> lx, value |-> value]

\* Lexer.read_number: int() raises ValueError on a digit character that is not decimal
read_number(lx) ==
    LET r == number_loop(lx, <<>>) IN
    IF \A i \in 1..Len(r.value) : r.value[i] \in AsciiDigits
    THEN Returned(r.lx, PyInt(int(r.value)))
    ELSE Raised(r.lx, [kind |-> "ValueError"])

\* the while loop of Lexer.read_identifier
RECURSIVE identifier_loop(_, _)
identifier_loop(lx, value) ==
    IF current_char(lx) # NoChar /\ (isalnum(current_char(lx)) \/ current_char(lx) = "_")
    THEN identifier_loop(advance(lx), Append(value, current_char(lx)))
    ELSE Returned(lx, PyStr(value))

\* Lexer.read_identifier
read_identifier(lx) ==
    IF ~isalpha(current_char(lx))
    THEN Raised(lx, LexicalError("Identifier must start with a letter", lx.line, lx.column, ""))
    ELSE identifier_loop(lx, <<>>)

\* Lexer.read_operator trying the single-character table first
read_operator_single_first(lx) ==
    LET char == current_char(lx)
        next_char == peek_char(lx)
    IN  IF char \in SingleChars
        THEN Returned(advance(lx), <<char>>)
        ELSE IF next_char # NoChar /\ <<char, next_char>> \in DoubleChars
        THEN Returned(advance(advance(lx)), <<char, next_char>>)
        ELSE Raised(lx, LexicalError("Unknown operator", lx.line, lx.column, char))

\* Lexer.read_operator: the value is the lexeme, one or two characters
read_operator(lx) ==
    LET char == current_char(lx)
        next_char == peek_char(lx)
    IN  IF next_char # NoChar /\ <<char, next_char>> \in DoubleChars
        THEN Returned(advance(advance(lx)), <<char, next_char>>)
        ELSE IF char \in SingleChars
        THEN Returned(advance(lx), <<char>>)
        ELSE Raised(lx, LexicalError("Unknown operator", lx.line, lx.column, char))

\* what one iteration of the while loop of tokenize leaves: the cursor, the token
\* list, the reporter's errors, and `from`, the cursor after skip_whitespace
\* (token_line, token_column are from.line, from.column)
Iteration(lx, toks, errs, from) ==
    [lx |-> lx, tokens |-> toks, errors |-> errs, from |-> from]

\* the handler `except Exception` of tokenize (lines 233-237), entered with the
\* cursor where the exception left it
unexpected_error(lx, toks, errs, from) ==
    Iteration(advance(lx), toks,
              report_error(errs, LexicalError("Unexpected error during tokenization",
                                              lx.line, lx.column, "")),
              from)

\* the string branch of tokenize (lines 187-196)
string_branch(lx, toks, errs) ==
    LET r == read_string_literal(lx) IN
    IF r.ok
    THEN Iteration(r.lx, Append(toks, Token("STRING_LITERAL", r.value, lx.line, lx.column)),
                   errs, lx)
    ELSE Iteration(advance(r.lx), toks, report_error(errs, r.error), lx)

\* the operator branch of tokenize (lines 214-226)
operator_branch(lx, toks, errs) ==
    LET r == read_operator(lx) IN
    IF r.ok
    THEN LET token_type == IF r.value \in DoubleChars
                           THEN DOUBLE_CHAR_TOKENS(r.value)
                           ELSE SINGLE_CHAR_TOKENS(r.value[1])
         IN  Iteration(r.lx, Append(toks, Token(token_type, PyStr(r.value), lx.line, lx.column)),
                       errs, lx)
    ELSE Iteration(advance(r.lx), toks, report_error(errs, r.error), lx)

\* the unknown-character branch of tokenize (lines 228-231) without its advance()
unknown_character_no_skip(lx, toks, errs) ==
    Iteration(lx, toks,
              report_error(errs, LexicalError("Unexpected character", lx.line, lx.column,
                                              current_char(lx))),
              lx)

\* the unknown-character branch of tokenize (lines 228-231) with a second advance()
unknown_character_skips_two(lx, toks, errs) ==
    Iteration(advance(advance(lx)), toks,
              report_error(errs, LexicalError("Unexpected character", lx.line, lx.column,
                                              current_char(lx))),
              lx)

\* the unknown-character branch of tokenize (lines 228-231)
unknown_character(lx, toks, errs) ==
    Iteration(advance(lx), toks,
              report_error(errs, LexicalError("Unexpected character", lx.line, lx.column,
                                              current_char(lx))),
              lx)

\* one iteration of the while loop of Lexer.tokenize (lines 166-237), entered with
\* the cursor at lx0
tokenize_iteration(lx0, toks, errs) ==
    LET lx == skip_whitespace(lx0)
        char == current_char(lx)
    IN  IF char = NoChar THEN Iteration(lx, toks, errs, lx)              \* break
        ELSE IF char = "\n" THEN Iteration(advance(lx), toks, errs, lx)
        ELSE IF char = "/" /\ peek_char(lx) = "/"
        THEN Iteration(skip_comment(lx), toks, errs, lx)
        ELSE IF char = "\"" THEN string_branch(lx, toks, errs)
        ELSE IF isdigit(char)
        THEN LET r == read_number(lx) IN
             IF r.ok
             THEN Iteration(r.lx, Append(toks, Token("INTEGER", r.value, lx.line, lx.column)),
                            errs, lx)
             ELSE unexpected_error(r.lx, toks, errs, lx)
        ELSE IF isalpha(char)
        THEN LET r == read_identifier(lx) IN
             IF r.ok
             THEN Iteration(r.lx,
                            Append(toks, Token(KEYWORDS(r.value.value), r.value,
                                               lx.line, lx.column)),
                            errs, lx)
             ELSE unexpected_error(r.lx, toks, errs, lx)
        ELSE IF char \in SingleChars
                \/ <<char, IF peek_char(lx) = NoChar THEN "" ELSE peek_char(lx)>> \in DoubleChars
        THEN operator_branch(lx, toks, errs)
        ELSE unknown_character(lx, toks, errs)

\* Lexer.tokenize, one iteration of `while self.position < len(self.source)`
LexStep ==
    /\ lpc = "scan"
    /\ position < Len(source)
    /\ LET r == tokenize_iteration(Cursor(position, line, column), tokens, errors) IN
         /\ position' = r.lx.position
         /\ line' = r.lx.line
         /\ column' = r.lx.column
         /\ tokens' = r.tokens
         /\ errors' = r.errors
         /\ stepFrom' = r.from
    /\ UNCHANGED <<source, lpc, parseVars, mainVars>>

\* the end of Lexer.tokenize (lines 239-241): the token list it returns
eof_tokens(toks, l, c) == Append(toks, Token("EOF", PyStr(<<>>), l, c))

\* Lexer.tokenize, after the loop: append the EOF token and return
LexEOF ==
    /\ lpc = "scan"
    /\ position >= Len(source)
    /\ tokens' = eof_tokens(tokens, line, column)
    /\ lpc' = "done"
    /\ UNCHANGED <<source, position, line, column, errors, stepFrom, parseVars, mainVars>>

\* sequences over S of length at most n
SeqsUpTo(S, n) == UNION {[1..k -> S] : k \in 0..n}

\* before any component is constructed
Init ==
    /\ source = <<>>
    /\ position = 0
    /\ line = 1
    /\ column = 1
    /\ tokens = <<>>
    /\ errors = <<>>
    /\ lpc = "idle"
    /\ stepFrom = Cursor(0, 1, 1)
    /\ ppos = 0
    /\ statements = <<>>
    /\ ast = PyNone
    /\ ppc = "idle"
    /\ syncCalls = 0
    /\ stmtStart = 0
    /\ warnings = <<>>
    /\ apc = "idle"
    /\ result = PyNone
    /\ calls = 0

\* tokenize(source, error_reporter) of lexer.py (lines 260-263) up to the loop of
\* Lexer.tokenize: Lexer.__init__ (lines 13-19) on a text drawn from `sources`, with
\* a fresh reporter, then self.tokens = []
LexerNew(sources) ==
    /\ lpc = "idle"
    /\ ppc = "idle"
    /\ apc = "idle"
    /\ source' \in sources
    /\ position' = 0
    /\ line' = 1
    /\ column' = 1
    /\ tokens' = <<>>
    /\ errors' = <<>>
    /\ lpc' = "scan"
    /\ UNCHANGED <<stepFrom, parseVars, mainVars>>

NextLexer(sources) == LexerNew(sources) \/ LexStep \/ LexEOF

\* one character of every class the scanner distinguishes
ScanChars == {" ", "\n", "/", "\"", "\\", "1", "SUP2", "a", "=", "&"}

\* the characters string literals are made of
StringChars == {"\"", "\\", "\n", "n", "t", "r", "q"}

\* the characters operators are made of, and a separator
OperatorChars == {"<", ">", "=", "!", "&", "|", " "}

\* the scanner on every text of at most MaxSrcLen characters
NextScan == NextLexer(SeqsUpTo(ScanChars, MaxSrcLen))
SpecLexer == Init /\ [][NextScan]_vars

\* the scanner on every text of at most MaxStrLen string characters
NextStrings == NextLexer(SeqsUpTo(StringChars, MaxStrLen))
SpecStrings == Init /\ [][NextStrings]_vars

\* the scanner on every text of at most MaxOpLen operator characters
NextOperators == NextLexer(SeqsUpTo(OperatorChars, MaxOpLen))
SpecOperators == Init /\ [][NextOperators]_vars

----------------------------------------------------------------------------
(* src/src/grammar.py: the AST dataclasses.  A dataclass lists the fields of its  *)
(* base class first, so every node's positional parameters are line, column and   *)
(* then its own fields; each constructor below binds its arguments in that order. *)

Program(a1, a2, a3) ==
    [class |-> "Program", line |-> a1, column |-> a2, statements |-> a3]
Assignment(a1, a2, a3, a4) ==
    [class |-> "Assignment", line |-> a1, column |-> a2, identifier |-> a3, expression |-> a4]
IfStatement(a1, a2, a3, a4, a5) ==
    [class |-> "IfStatement", line |-> a1, column |-> a2, condition |-> a3,
     then_statement |-> a4, else_statement |-> a5]
WhileStatement(a1, a2, a3, a4) ==
    [class |-> "WhileStatement", line |-> a1, column |-> a2, condition |-> a3, body |-> a4]
ForStatement(a1, a2, a3, a4, a5, a6) ==
    [class |-> "ForStatement", line |-> a1, column |-> a2, init |-> a3, condition |-> a4,
     update |-> a5, body |-> a6]
Block(a1, a2, a3) ==
    [class |-> "Block", line |-> a1, column |-> a2, statements |-> a3]
BinaryExpression(a1, a2, a3, a4, a5) ==
    [class |-> "BinaryExpression", line |-> a1, column |-> a2, left |-> a3,
     operator |-> a4, right |-> a5]
UnaryExpression(a1, a2, a3, a4) ==
    [class |-> "UnaryExpression", line |-> a1, column |-> a2, operator |-> a3, operand |-> a4]
Identifier(a1, a2, a3) ==
    [class |-> "Identifier", line |-> a1, column |-> a2, name |-> a3]
IntegerLiteral(a1, a2, a3) ==
    [class |-> "IntegerLiteral", line |-> a1, column |-> a2, value |-> a3]
BooleanLiteral(a1, a2, a3) ==
    [class |-> "BooleanLiteral", line |-> a1, column |-> a2, value |-> a3]
StringLiteral(a1, a2, a3) ==
    [class |-> "StringLiteral", line |-> a1, column |-> a2, value |-> a3]
DeclareNode(a1, a2, a3, a4) ==
    [class |-> "DeclareNode", line |-> a1, column |-> a2, type_token |-> a3, identifier |-> a4]
DeclareAndAssignNode(a1, a2, a3, a4, a5) ==
    [class |-> "DeclareAndAssignNode", line |-> a1, column |-> a2, type_token |-> a3,
     identifier |-> a4, expression |-> a5]
PrintNode(a1, a2, a3) ==
    [class |-> "PrintNode", line |-> a1, column |-> a2, expressions |-> a3]

\* OPERATOR_PRECEDENCE
OPERATOR_PRECEDENCE(t) ==
    CASE t = "OR" -> 1
      [] t = "AND" -> 2
      [] t \in {"EQUAL", "NOT_EQUAL"} -> 3
      [] t \in {"LESS_THAN", "GREATER_THAN", "LESS_EQUAL", "GREATER_EQUAL"} -> 4
      [] t \in {"PLUS", "MINUS"} -> 5
      [] t \in {"MULTIPLY", "DIVIDE", "MODULO"} -> 6
      [] t = "NOT" -> 7

\* BINARY_OPERATORS
BINARY_OPERATORS ==
    {"PLUS", "MINUS", "MULTIPLY", "DIVIDE", "MODULO", "LESS_THAN", "GREATER_THAN",
     "LESS_EQUAL", "GREATER_EQUAL", "EQUAL", "NOT_EQUAL", "AND", "OR"}

\* the members of the enumeration TokenType
TokenTypeNames ==
    {"INT", "BOOL", "STRING", "IF", "ELSE", "FOR", "WHILE", "TRUE", "FALSE", "PRINT",
     "PLUS", "MINUS", "MULTIPLY", "DIVIDE", "MODULO", "ASSIGN", "LESS_THAN",
     "GREATER_THAN", "LESS_EQUAL", "GREATER_EQUAL", "EQUAL", "NOT_EQUAL", "AND", "OR",
     "NOT", "SEMICOLON", "LEFT_BRACE", "RIGHT_BRACE", "LEFT_PAREN", "RIGHT_PAREN",
     "COMMA", "IDENTIFIER", "INTEGER", "STRING_LITERAL", "EOF", "NEWLINE"}

----------------------------------------------------------------------------
(* src/src/parser.py.  A parsing routine takes the parser state ps (the cursor   *)
(* Parser.position and the reporter's errors) and gives a result: it returned    *)
(* `node` (ok), it raised `exc`, or it never returns (hang: a loop that repeats  *)
(* in an unchanged state).                                                        *)

PState(pos, errs) == [pos |-> pos, errs |-> errs]
POk(ps, node) == [ok |-> TRUE, hang |-> FALSE, ps |-> ps, node |-> node, exc |-> PyNone]
PRaise(ps, exc) == [ok |-> FALSE, hang |-> FALSE, ps |-> ps, node |-> PyNone, exc |-> exc]
PHang(ps) == [ok |-> FALSE, hang |-> TRUE, ps |-> ps, node |-> PyNone, exc |-> PyNone]

\* self.error_reporter.report_error(error); raise error
ReportAndRaise(ps, error) == PRaise(PState(ps.pos, report_error(ps.errs, error)), error)

\* Parser.current_token
current_token(ps) ==
    IF ps.pos >= Len(tokens) THEN tokens[Len(tokens)] ELSE tokens[ps.pos + 1]

\* Parser.peek_token without the last token as its answer past the end
peek_token_none_past_end(ps) ==
    IF ps.pos + 1 >= Len(tokens) THEN PyNone ELSE tokens[ps.pos + 2]

\* Parser.peek_token (offset 1)
peek_token(ps) ==
    IF ps.pos + 1 >= Len(tokens) THEN tokens[Len(tokens)] ELSE tokens[ps.pos + 2]

\* Parser.advance stepping past the last token
parser_advance_unbounded(ps) == PState(ps.pos + 1, ps.errs)

\* Parser.advance: the parser state after it (it returns current_token(ps))
parser_advance(ps) ==
    IF ps.pos < Len(tokens) - 1 THEN PState(ps.pos + 1, ps.errs) ELSE ps

\* Parser.match
match(ps, token_types) == current_token(ps).type \in token_types

\* f"{current.type.name} '{current.value}'"
Found(current) == <<current.type, current.value>>

\* the message consume reports (lines 49-58)
consume_message(token_type, error_message) ==
    CASE token_type = "SEMICOLON" -> "Expected ';' at end of statement"
      [] token_type = "RIGHT_PAREN" -> "Expected ')' to close expression"
      [] token_type = "RIGHT_BRACE" -> "Expected '}' to close block"
      [] OTHER -> error_message

\* Parser.consume that also skips the token it did not expect
consume_skips_mismatch(ps, token_type, error_message) ==
    IF current_token(ps).type = token_type
    THEN POk(parser_advance(ps), current_token(ps))
    ELSE LET current == current_token(ps) IN
         ReportAndRaise(parser_advance(ps),
                        SyntaxError(consume_message(token_type, error_message),
                                    current.line, current.column,
                                    token_type, Found(current)))

\* Parser.consume: node is the token consumed
consume(ps, token_type, error_message) ==
    IF current_token(ps).type = token_type
    THEN POk(parser_advance(ps), current_token(ps))
    ELSE LET current == current_token(ps) IN
         ReportAndRaise(ps, SyntaxError(consume_message(token_type, error_message),
                                        current.line, current.column,
                                        token_type, Found(current)))

\* the set of token kinds synchronize stops at (lines 76-80)
SyncTokens ==
    {"SEMICOLON", "LEFT_BRACE", "RIGHT_BRACE", "IF", "WHILE", "FOR", "INT", "BOOL", "STRING"}

\* the while loop of Parser.synchronize
RECURSIVE synchronize_loop(_)
synchronize_loop(ps) ==
    IF match(ps, {"EOF"}) THEN ps
    ELSE IF current_token(ps).type \in SyncTokens THEN ps
    ELSE synchronize_loop(parser_advance(ps))

\* Parser.synchronize without its first advance()
synchronize_no_first_advance(ps) == synchronize_loop(ps)

\* Parser.synchronize stopping only at EOF
RECURSIVE synchronize_to_eof(_)
synchronize_to_eof(ps) ==
    IF match(parser_advance(ps), {"EOF"})
    THEN parser_advance(ps)
    ELSE synchronize_to_eof(parser_advance(ps))

\* Parser.synchronize
synchronize(ps) == synchronize_loop(parser_advance(ps))

\* `body` applied to the value of r, which is computed once
Let(r, body(_)) == CHOOSE out \in {body(x) : x \in {r}} : TRUE

\* the statements after a call that gave r: an exception raised by the call (or
\* its never returning) ends the calling routine the same way; otherwise the
\* routine goes on with `rest`
Try(r, rest(_)) == Let(r, LAMBDA x : IF ~x.ok THEN x ELSE rest(x))

RECURSIVE parse_expression(_)
RECURSIVE parse_unary(_)
RECURSIVE parse_statement(_)
RECURSIVE parse_block(_)
RECURSIVE parse_if_statement(_)

\* Parser.parse_primary
parse_primary(ps) ==
    LET current == current_token(ps) IN
    IF match(ps, {"IDENTIFIER"})
    THEN POk(parser_advance(ps),
             Identifier(current.value, PyInt(current.line), PyInt(current.column)))
    ELSE IF match(ps, {"INTEGER"})
    THEN POk(parser_advance(ps),
             IntegerLiteral(current.value, PyInt(current.line), PyInt(current.column)))
    ELSE IF match(ps, {"TRUE"})
    THEN POk(parser_advance(ps),
             BooleanLiteral(PyBool(TRUE), PyInt(current.line), PyInt(current.column)))
    ELSE IF match(ps, {"FALSE"})
    THEN POk(parser_advance(ps),
             BooleanLiteral(PyBool(FALSE), PyInt(current.line), PyInt(current.column)))
    ELSE IF match(ps, {"STRING_LITERAL"})
    THEN POk(parser_advance(ps),
             StringLiteral(current.value, PyInt(current.line), PyInt(current.column)))
    ELSE IF match(ps, {"LEFT_PAREN"})
    THEN Try(parse_expression(parser_advance(ps)), LAMBDA expr :
         Try(consume(expr.ps, "RIGHT_PAREN", "Expected ')' after expression"), LAMBDA c :
         POk(c.ps, expr.node)))
    ELSE ReportAndRaise(ps, SyntaxError("Expected expression", current.line, current.column,
                                        "identifier, literal, or '('", Found(current)))

\* Parser.parse_unary
parse_unary(ps) ==
    IF match(ps, {"NOT", "MINUS"})
    THEN LET operator_token == current_token(ps) IN
         Try(parse_unary(parser_advance(ps)), LAMBDA operand :
         POk(operand.ps,
             UnaryExpression(PyTokenType(operator_token.type), operand.node,
                             PyInt(operator_token.line), PyInt(operator_token.column))))
    ELSE parse_primary(ps)

\* the six binary levels of the cascade, loosest first: for each the operators its
\* loop matches (lines 384, 401, 418, 435-436, 453, 470) ...
LevelOperators(level) ==
    CASE level = "logical_or" -> {"OR"}
      [] level = "logical_and" -> {"AND"}
      [] level = "equality" -> {"EQUAL", "NOT_EQUAL"}
      [] level = "relational" -> {"LESS_THAN", "GREATER_THAN", "LESS_EQUAL", "GREATER_EQUAL"}
      [] level = "additive" -> {"PLUS", "MINUS"}
      [] level = "multiplicative" -> {"MULTIPLY", "DIVIDE", "MODULO"}

\* ... and the level whose method parses its operands (lines 382/386, 399/403,
\* 416/420, 433/438, 451/455); the operands of the last one are parsed by
\* parse_unary (lines 468/472)
OperandLevel(level) ==
    CASE level = "logical_or" -> "logical_and"
      [] level = "logical_and" -> "equality"
      [] level = "equality" -> "relational"
      [] level = "relational" -> "additive"
      [] level = "additive" -> "multiplicative"
      [] level = "multiplicative" -> "unary"

RECURSIVE parse_level(_, _)

\* the call that parses one operand of a level
parse_operand(ps, level) ==
    IF OperandLevel(level) = "unary" THEN parse_unary(ps)
    ELSE parse_level(ps, OperandLevel(level))

\* the while loop of a level's method: the six loops differ only in the operators
\* matched and the method called for the right operand
RECURSIVE level_loop(_, _, _)
level_loop(ps, expr, level) ==
    IF match(ps, LevelOperators(level))
    THEN LET operator_token == current_token(ps) IN
         Try(parse_operand(parser_advance(ps), level), LAMBDA right :
         level_loop(right.ps,
                    BinaryExpression(expr, PyTokenType(operator_token.type), right.node,
                                     expr.line, expr.column),
                    level))
    ELSE POk(ps, expr)

\* a level's method: operand (operator operand)*
parse_level(ps, level) ==
    Try(parse_operand(ps, level), LAMBDA expr : level_loop(expr.ps, expr.node, level))

\* Parser.parse_multiplicative: unary (('*' | '/' | '%') unary)*
parse_multiplicative(ps) == parse_level(ps, "multiplicative")

\* Parser.parse_additive: multiplicative (('+' | '-') multiplicative)*
parse_additive(ps) == parse_level(ps, "additive")

\* Parser.parse_relational: additive (('<' | '>' | '<=' | '>=') additive)*
parse_relational(ps) == parse_level(ps, "relational")

\* Parser.parse_equality: relational (('==' | '!=') relational)*
parse_equality(ps) == parse_level(ps, "equality")

\* Parser.parse_logical_and: equality ('&&' equality)*
parse_logical_and(ps) == parse_level(ps, "logical_and")

\* Parser.parse_logical_or: logical_and ('||' logical_and)*
parse_logical_or(ps) == parse_level(ps, "logical_or")

\* Parser.parse_expression
parse_expression(ps) == parse_logical_or(ps)

\* Parser.parse_declaration
parse_declaration(ps) ==
    LET type_token == current_token(ps)
        ps1 == parser_advance(ps)
        identifier_token == current_token(ps1)
        ps2 == parser_advance(ps1)
    IN  IF ~match(ps1, {"IDENTIFIER"})
        THEN ReportAndRaise(ps1, SyntaxError("Expected identifier after type",
                                             current_token(ps1).line, current_token(ps1).column,
                                             "identifier", Found(current_token(ps1))))
        ELSE IF match(ps2, {"ASSIGN"})
        THEN Try(parse_expression(parser_advance(ps2)), LAMBDA expression :
             Try(consume(expression.ps, "SEMICOLON", "Expected ';' after declaration"),
                 LAMBDA c :
             POk(c.ps, DeclareAndAssignNode(PyTokenType(type_token.type),
                                            identifier_token.value, expression.node,
                                            PyInt(type_token.line),
                                            PyInt(type_token.column)))))
        ELSE Try(consume(ps2, "SEMICOLON", "Expected ';' after declaration"), LAMBDA c :
             POk(c.ps, DeclareNode(PyTokenType(type_token.type), identifier_token.value,
                                   PyInt(type_token.line), PyInt(type_token.column))))

\* Parser.parse_assignment_without_semicolon
parse_assignment_without_semicolon(ps) ==
    LET identifier_token == current_token(ps) IN
    Try(consume(parser_advance(ps), "ASSIGN", "Expected '=' in assignment"), LAMBDA c :
    Try(parse_expression(c.ps), LAMBDA expression :
    POk(expression.ps, Assignment(identifier_token.value, expression.node,
                                  PyInt(identifier_token.line),
                                  PyInt(identifier_token.column)))))

\* Parser.parse_assignment
parse_assignment(ps) ==
    LET identifier_token == current_token(ps) IN
    Try(consume(parser_advance(ps), "ASSIGN", "Expected '=' in assignment"), LAMBDA c :
    Try(parse_expression(c.ps), LAMBDA expression :
    Try(consume(expression.ps, "SEMICOLON", "Expected ';' after assignment"), LAMBDA c2 :
    POk(c2.ps, Assignment(identifier_token.value, expression.node,
                          PyInt(identifier_token.line),
                          PyInt(identifier_token.column))))))

\* the check that a control construct's body starts with '{' (lines 232-240,
\* 253-261, 281-289, 328-336), then parse_block
braced_body(ps, message) ==
    IF ~match(ps, {"LEFT_BRACE"})
    THEN ReportAndRaise(ps, SyntaxError(message, current_token(ps).line,
                                        current_token(ps).column, "", <<>>))
    ELSE parse_block(ps)

\* the else part of Parser.parse_if_statement (lines 244-262), entered after the
\* then-block: node is else_statement
else_part(ps) ==
    IF match(ps, {"ELSE"})
    THEN IF match(parser_advance(ps), {"IF"})
         THEN parse_if_statement(parser_advance(ps))
         ELSE braced_body(parser_advance(ps),
                          "Expected '{' to start the body of 'varna' statement")
    ELSE POk(ps, PyNone)

\* Parser.parse_if_statement
parse_if_statement(ps) ==
    LET if_token == current_token(ps) IN
    Try(consume(parser_advance(ps), "LEFT_PAREN", "Expected '(' after 'agar'"), LAMBDA c1 :
    Try(parse_expression(c1.ps), LAMBDA condition :
    Try(consume(condition.ps, "RIGHT_PAREN", "Expected ')' after condition"), LAMBDA c2 :
    Try(braced_body(c2.ps, "Expected '{' to start the body of 'agar' statement"),
        LAMBDA then_statement :
    Try(else_part(then_statement.ps), LAMBDA else_statement :
    POk(else_statement.ps,
        IfStatement(condition.node, then_statement.node, else_statement.node,
                    PyInt(if_token.line), PyInt(if_token.column))))))))

\* Parser.parse_while_statement
parse_while_statement(ps) ==
    LET while_token == current_token(ps) IN
    Try(consume(parser_advance(ps), "LEFT_PAREN", "Expected '(' after 'jabtak'"), LAMBDA c1 :
    Try(parse_expression(c1.ps), LAMBDA condition :
    Try(consume(condition.ps, "RIGHT_PAREN", "Expected ')' after condition"), LAMBDA c2 :
    Try(braced_body(c2.ps, "Expected '{' to start the body of 'jabtak' statement"),
        LAMBDA body :
    POk(body.ps, WhileStatement(condition.node, body.node,
                                PyInt(while_token.line), PyInt(while_token.column)))))))

\* the initialization clause of Parser.parse_for_statement (lines 306-313)
for_init(ps) ==
    IF match(ps, {"INT", "BOOL", "STRING"}) THEN parse_declaration(ps)
    ELSE IF match(ps, {"IDENTIFIER"}) THEN parse_assignment_without_semicolon(ps)
    ELSE Try(consume(ps, "SEMICOLON", "Expected ';' after initialization"), LAMBDA c :
         POk(c.ps, PyNone))

\* the update clause of Parser.parse_for_statement (lines 319-323)
for_update(ps) ==
    IF match(ps, {"IDENTIFIER"}) THEN parse_assignment_without_semicolon(ps)
    ELSE POk(ps, PyNone)

\* Parser.parse_for_statement
parse_for_statement(ps) ==
    LET for_token == current_token(ps) IN
    Try(consume(parser_advance(ps), "LEFT_PAREN", "Expected '(' after 'tabtak'"), LAMBDA c1 :
    Try(for_init(c1.ps), LAMBDA init :
    Try(parse_expression(init.ps), LAMBDA condition :
    Try(consume(condition.ps, "SEMICOLON", "Expected ';' after condition"), LAMBDA c2 :
    Try(for_update(c2.ps), LAMBDA update :
    Try(consume(update.ps, "RIGHT_PAREN", "Expected ')' after 'tabtak' header"), LAMBDA c3 :
    Try(braced_body(c3.ps, "Expected '{' to start the body of 'tabtak' statement"),
        LAMBDA body :
    POk(body.ps, ForStatement(init.node, condition.node, update.node, body.node,
                              PyInt(for_token.line), PyInt(for_token.column))))))))))

\* the while loop of Parser.parse_block (lines 367-370).  parse_statement depends
\* on the cursor alone, so an iteration that returns with the cursor where it was
\* repeats for ever: hang
RECURSIVE block_loop(_, _)
block_loop(ps, stmts) ==
    IF match(ps, {"RIGHT_BRACE", "EOF"}) THEN POk(ps, stmts)
    ELSE Try(parse_statement(ps), LAMBDA stmt :
         IF stmt.ps.pos = ps.pos THEN PHang(ps)
         ELSE block_loop(stmt.ps, Append(stmts, stmt.node)))

\* Parser.parse_block with a recovery of its own: when a statement of the block
\* fails, it synchronizes and returns a Block without statements
parse_block_recovering(ps) ==
    LET left_brace == current_token(ps) IN
    Let(block_loop(parser_advance(ps), <<>>), LAMBDA body :
        IF body.hang THEN body
        ELSE IF ~body.ok
        THEN POk(synchronize(body.ps),
                 Block(PyList(<<>>), PyInt(left_brace.line), PyInt(left_brace.column)))
        ELSE Try(consume(body.ps, "RIGHT_BRACE", "Expected '}' to close block"), LAMBDA c :
             POk(c.ps, Block(PyList(body.node), PyInt(left_brace.line),
                             PyInt(left_brace.column)))))

\* Parser.parse_block
parse_block(ps) ==
    LET left_brace == current_token(ps) IN
    Try(block_loop(parser_advance(ps), <<>>), LAMBDA body :
    Try(consume(body.ps, "RIGHT_BRACE", "Expected '}' to close block"), LAMBDA c :
    POk(c.ps, Block(PyList(body.node), PyInt(left_brace.line), PyInt(left_brace.column)))))

\* the loop of Parser.parse_print_statement over ', expression' (lines 548-550)
RECURSIVE print_loop(_, _)
print_loop(ps, expressions) ==
    IF match(ps, {"COMMA"})
    THEN Try(parse_expression(parser_advance(ps)), LAMBDA e :
         print_loop(e.ps, Append(expressions, e.node)))
    ELSE POk(ps, expressions)

\* Parser.parse_print_statement
parse_print_statement(ps) ==
    LET dikhao_token == current_token(ps) IN
    Try(consume(parser_advance(ps), "LEFT_PAREN", "Expected '(' after 'dikhao'"), LAMBDA c1 :
    Try(parse_expression(c1.ps), LAMBDA first :
    Try(print_loop(first.ps, <<first.node>>), LAMBDA expressions :
    Try(consume(expressions.ps, "RIGHT_PAREN", "Expected ')' after print arguments"),
        LAMBDA c2 :
    Try(consume(c2.ps, "SEMICOLON", "Expected ';' after print statement"), LAMBDA c3 :
    POk(c3.ps, PrintNode(PyList(expressions.node), PyInt(dikhao_token.line),
                         PyInt(dikhao_token.column))))))))

\* Parser.parse_input_statement.  Its last statement calls InputNode, a name that
\* grammar.py does not define: a NameError.  (The same name in the method's return
\* annotation is evaluated when the class body runs only by interpreters that
\* evaluate annotations eagerly; the model is of the class once defined.)
parse_input_statement(ps) ==
    Try(consume(parser_advance(ps), "LEFT_PAREN", "Expected '(' after 'likho'"), LAMBDA c1 :
    IF ~match(c1.ps, {"IDENTIFIER"})
    THEN ReportAndRaise(c1.ps, SyntaxError("Expected identifier in input statement",
                                           current_token(c1.ps).line,
                                           current_token(c1.ps).column,
                                           "identifier", Found(current_token(c1.ps))))
    ELSE Try(consume(parser_advance(c1.ps), "RIGHT_PAREN", "Expected ')' after identifier"),
             LAMBDA c2 :
         Try(consume(c2.ps, "SEMICOLON", "Expected ';' after input statement"), LAMBDA c3 :
         PRaise(c3.ps, [kind |-> "NameError"]))))

\* the try block of Parser.parse_statement (lines 112-151).  TokenType.INPUT is
\* an attribute lookup on the enumeration: an AttributeError when TokenType has no
\* such member
statement_dispatch(ps) ==
    IF match(ps, {"PRINT"}) THEN parse_print_statement(ps)
    ELSE IF match(ps, {"INT", "BOOL", "STRING"}) THEN parse_declaration(ps)
    ELSE IF match(ps, {"IF"}) THEN parse_if_statement(ps)
    ELSE IF match(ps, {"WHILE"}) THEN parse_while_statement(ps)
    ELSE IF match(ps, {"FOR"}) THEN parse_for_statement(ps)
    ELSE IF match(ps, {"LEFT_BRACE"}) THEN parse_block(ps)
    ELSE IF match(ps, {"IDENTIFIER"}) /\ peek_token(ps).type = "ASSIGN"
    THEN parse_assignment(ps)
    ELSE IF "INPUT" \notin TokenTypeNames THEN PRaise(ps, [kind |-> "AttributeError"])
    ELSE IF match(ps, {"INPUT"}) THEN parse_input_statement(ps)
    ELSE ReportAndRaise(ps, SyntaxError("Invalid statement", current_token(ps).line,
                                        current_token(ps).column,
                                        "declaration, assignment, control statement, or block",
                                        Found(current_token(ps))))

\* Parser.parse_statement without its handlers: every exception of the try block
\* leaves the routine as it is
parse_statement_no_handlers(ps) == statement_dispatch(ps)

\* Parser.parse_statement whose first handler reports the SyntaxError or ParseError
\* again before it re-raises it
parse_statement_reporting_again(ps) ==
    Let(statement_dispatch(ps), LAMBDA r :
        IF r.ok \/ r.hang THEN r
        ELSE IF r.exc.kind \in {"SyntaxError", "ParseError"} THEN ReportAndRaise(r.ps, r.exc)
        ELSE ReportAndRaise(r.ps, ParseError("Error parsing statement",
                                             current_token(r.ps).line,
                                             current_token(r.ps).column)))

\* Parser.parse_statement: the try block, then the handlers (lines 153-160), which
\* re-raise a SyntaxError or ParseError and report any other exception as a
\* ParseError at the current token
parse_statement(ps) ==
    Let(statement_dispatch(ps), LAMBDA r :
        IF r.ok \/ r.hang THEN r
        ELSE IF r.exc.kind \in {"SyntaxError", "ParseError"} THEN r
        ELSE ReportAndRaise(r.ps, ParseError("Error parsing statement",
                                             current_token(r.ps).line,
                                             current_token(r.ps).column)))

\* Parser(tokens, reporter).parse() up to the loop of parse_program: Parser.__init__
\* (lines 13-17) on a token sequence drawn from `inputs`, with a fresh reporter, then
\* statements = [] (line 97)
ParserNew(inputs) ==
    /\ ppc = "idle"
    /\ lpc = "idle"
    /\ apc = "idle"
    /\ tokens' \in inputs
    /\ errors' = <<>>
    /\ ppos' = 0
    /\ statements' = <<>>
    /\ ast' = PyNone
    /\ ppc' = "loop"
    /\ UNCHANGED <<lexVars, mainVars, syncCalls, stmtStart>>

\* the exception of the result r is one that `except (SyntaxError, ParseError)` of
\* parse_program (line 104) does not catch: it leaves parse_program and reaches
\* the handler of Parser.parse
Escapes(r) == ~r.ok /\ ~r.hang /\ r.exc.kind \notin {"SyntaxError", "ParseError"}

\* Parser.parse_program: one pass through the try block of its loop (lines 99-104).
\* An exception that the loop does not catch ends parse in its handler (lines
\* 89-93): one ParseError without position is reported and parse returns None
ParseStatement ==
    /\ ppc = "loop"
    /\ ~match(PState(ppos, errors), {"EOF"})
    /\ \E r \in {parse_statement(PState(ppos, errors))} :
         /\ ppos' = r.ps.pos
         /\ errors' = IF Escapes(r)
                      THEN report_error(r.ps.errs,
                                        ParseError("Unexpected error during parsing", 0, 0))
                      ELSE r.ps.errs
         /\ statements' = IF r.ok THEN Append(statements, r.node) ELSE statements
         /\ ppc' = IF r.hang THEN "hang" ELSE IF r.ok THEN "loop"
                   ELSE IF Escapes(r) THEN "done" ELSE "sync"
         /\ ast' = IF Escapes(r) THEN PyNone ELSE ast
    /\ stmtStart' = ppos
    /\ UNCHANGED <<lexVars, mainVars, tokens, syncCalls>>

\* Parser.parse_program: the handler of its loop (line 105), self.synchronize()
Synchronize ==
    /\ ppc = "sync"
    /\ ppos' = synchronize(PState(ppos, errors)).pos
    /\ syncCalls' = syncCalls + 1
    /\ ppc' = "loop"
    /\ UNCHANGED <<lexVars, mainVars, tokens, errors, statements, ast, stmtStart>>

\* Parser.parse_program after its loop (line 107) and Parser.parse (lines 87-88)
ParseReturn ==
    /\ ppc = "loop"
    /\ match(PState(ppos, errors), {"EOF"})
    /\ ast' = Program(PyList(statements), PyInt(1), PyInt(1))
    /\ ppc' = "done"
    /\ UNCHANGED <<lexVars, mainVars, tokens, errors, ppos, statements, syncCalls, stmtStart>>

NextParser(inputs) == ParserNew(inputs) \/ ParseStatement \/ Synchronize \/ ParseReturn

----------------------------------------------------------------------------
(* src/src/errors.py: the rest of ErrorReporter; src/src/main.py:                 *)
(* SimpleLangAnalyzer.  The analyzer owns one reporter for its whole life and     *)
(* hands it to the Lexer and the Parser that each analyze_source call creates.    *)

\* number of analyze_source calls made on one analyzer
MaxCalls == 2

\* SimpleLangError(message, line, column), the class of a warning
SimpleLangError(message, eline, ecolumn) ==
    [kind |-> "SimpleLangError", message |-> message, line |-> eline, column |-> ecolumn,
     char |-> "", expected |-> "", found |-> <<>>]

\* ErrorReporter.report_warning
report_warning(warns, message, wline, wcolumn) ==
    Append(warns, SimpleLangError(<<"Warning: ", message>>, wline, wcolumn))

\* ErrorReporter.has_errors that never finds an error
has_errors_never(errs) == FALSE

\* ErrorReporter.has_errors
has_errors(errs) == Len(errs) > 0

\* ErrorReporter.clear with self.errors.clear() left out
clear_keeps_errors(errs, warns) == [errors |-> errs, warnings |-> <<>>]

\* ErrorReporter.clear: both lists emptied
clear(errs, warns) == [errors |-> <<>>, warnings |-> <<>>]

\* Lexer.tokenize run to its end on the text in `source` (the loop of lines 166-237
\* and the EOF token), with a reporter that holds errs
RECURSIVE tokenize_loop(_, _, _)
tokenize_loop(lx, toks, errs) ==
    IF lx.position < Len(source)
    THEN LET r == tokenize_iteration(lx, toks, errs)
         IN  tokenize_loop(r.lx, r.tokens, r.errors)
    ELSE [tokens |-> eof_tokens(toks, lx.line, lx.column), errors |-> errs]

\* Lexer(source, reporter).tokenize()
tokenize(errs) == tokenize_loop(Cursor(0, 1, 1), <<>>, errs)

\* Parser.parse_program run to its end from the state ps (the loop of lines
\* 98-105): the statements collected and the final state, or hang when a
\* parse_statement call does not return
RECURSIVE parse_program(_, _)
parse_program(ps, stmts) ==
    IF match(ps, {"EOF"}) THEN [hang |-> FALSE, ps |-> ps, statements |-> stmts]
    ELSE Let(parse_statement(ps), LAMBDA r :
             IF r.hang THEN [hang |-> TRUE, ps |-> r.ps, statements |-> stmts]
             ELSE IF r.ok THEN parse_program(r.ps, Append(stmts, r.node))
             ELSE parse_program(synchronize(r.ps), stmts))

\* SimpleLangAnalyzer.analyze_source up to the loop of Lexer.tokenize: the reporter
\* is cleared (line 38), a Lexer is constructed on a text drawn from `sources`
\* (line 46) and tokenize sets self.tokens = [].  No Parser exists yet and self.ast
\* keeps the tree of the call before
AnalyzeSource(sources) ==
    /\ apc \in {"idle", "returned", "between"}
    /\ apc = "idle" => (lpc = "idle" /\ ppc = "idle")
    /\ calls < MaxCalls
    /\ errors' = clear(errors, warnings).errors
    /\ warnings' = clear(errors, warnings).warnings
    /\ source' \in sources
    /\ position' = 0
    /\ line' = 1
    /\ column' = 1
    /\ tokens' = <<>>
    /\ stepFrom' = Cursor(0, 1, 1)
    /\ lpc' = "scan"
    /\ ppos' = 0
    /\ statements' = <<>>
    /\ ppc' = "idle"
    /\ syncCalls' = 0
    /\ stmtStart' = 0
    /\ result' = PyNone
    /\ calls' = calls + 1
    /\ apc' = "lexing"
    /\ UNCHANGED ast

\* analyze_source after tokenize returned (lines 49-58): return False when the
\* reporter has errors, else construct the Parser and enter parse_program
AfterLexing ==
    /\ apc = "lexing"
    /\ lpc = "done"
    /\ IF has_errors(errors)
       THEN /\ result' = PyBool(FALSE)
            /\ apc' = "returned"
            /\ UNCHANGED <<ppos, statements, ppc>>
       ELSE /\ ppos' = 0
            /\ statements' = <<>>
            /\ ppc' = "loop"
            /\ apc' = "parsing"
            /\ UNCHANGED result
    /\ UNCHANGED <<lexVars, tokens, errors, ast, syncCalls, stmtStart, warnings, calls>>

\* analyze_source after parser.parse() returned into self.ast (lines 59-72)
AfterParsing ==
    /\ apc = "parsing"
    /\ ppc = "done"
    /\ result' = PyBool(~has_errors(errors))
    /\ apc' = "returned"
    /\ UNCHANGED <<lexVars, parseVars, tokens, errors, warnings, calls>>

\* SimpleLangAnalyzer.print_tokens (lines 74-83) on the text last analysed, as the
\* `tokens` command of interactive_mode calls it between two analyses: a second
\* Lexer runs on the analyzer's reporter, which is not cleared first
PrintTokens ==
    /\ apc = "returned"
    /\ errors' = tokenize(errors).errors
    /\ apc' = "between"
    /\ UNCHANGED <<lexVars, parseVars, tokens, warnings, result, calls>>

\* ErrorReporter.report_warning, called on the analyzer's reporter between two
\* analyses
ReportWarning ==
    /\ apc = "returned"
    /\ warnings' = report_warning(warnings, "w", 0, 0)
    /\ apc' = "between"
    /\ UNCHANGED <<lexVars, parseVars, tokens, errors, result, calls>>

NextAnalyzer(sources) ==
    \/ AnalyzeSource(sources)
    \/ LexStep
    \/ LexEOF
    \/ AfterLexing
    \/ ParseStatement
    \/ Synchronize
    \/ ParseReturn
    \/ AfterParsing
    \/ PrintTokens
    \/ ReportWarning

\* the value the scanner gives a token of each kind: the lexeme (for a name, a
\* number and a string literal: x, 1 and s)
TokenValue(kind) ==
    CASE kind = "INTEGER" -> PyInt(1)
      [] kind = "IDENTIFIER" -> PyStr(<<"x">>)
      [] kind = "STRING_LITERAL" -> PyStr(<<"s">>)
      [] kind = "INT" -> PyStr(<<"i", "n", "t">>)
      [] kind = "BOOL" -> PyStr(<<"b", "o", "o", "l">>)
      [] kind = "STRING" -> PyStr(<<"s", "t", "r", "i", "n", "g">>)
      [] kind = "IF" -> PyStr(<<"i", "f">>)
      [] kind = "ELSE" -> PyStr(<<"e", "l", "s", "e">>)
      [] kind = "FOR" -> PyStr(<<"f", "o", "r">>)
      [] kind = "WHILE" -> PyStr(<<"w", "h", "i", "l", "e">>)
      [] kind = "TRUE" -> PyStr(<<"t", "r", "u", "e">>)
      [] kind = "FALSE" -> PyStr(<<"f", "a", "l", "s", "e">>)
      [] kind = "PRINT" -> PyStr(<<"d", "i", "k", "h", "a", "o">>)
      [] kind = "PLUS" -> PyStr(<<"+">>)
      [] kind = "MINUS" -> PyStr(<<"-">>)
      [] kind = "MULTIPLY" -> PyStr(<<"*">>)
      [] kind = "DIVIDE" -> PyStr(<<"/">>)
      [] kind = "MODULO" -> PyStr(<<"%">>)
      [] kind = "ASSIGN" -> PyStr(<<"=">>)
      [] kind = "LESS_THAN" -> PyStr(<<"<">>)
      [] kind = "GREATER_THAN" -> PyStr(<<">">>)
      [] kind = "LESS_EQUAL" -> PyStr(<<"<", "=">>)
      [] kind = "GREATER_EQUAL" -> PyStr(<<">", "=">>)
      [] kind = "EQUAL" -> PyStr(<<"=", "=">>)
      [] kind = "NOT_EQUAL" -> PyStr(<<"!", "=">>)
      [] kind = "AND" -> PyStr(<<"&", "&">>)
      [] kind = "OR" -> PyStr(<<"|", "|">>)
      [] kind = "NOT" -> PyStr(<<"!">>)
      [] kind = "SEMICOLON" -> PyStr(<<";">>)
      [] kind = "LEFT_BRACE" -> PyStr(<<"{">>)
      [] kind = "RIGHT_BRACE" -> PyStr(<<"}">>)
      [] kind = "LEFT_PAREN" -> PyStr(<<"(">>)
      [] kind = "RIGHT_PAREN" -> PyStr(<<")">>)
      [] kind = "COMMA" -> PyStr(<<",">>)
      [] OTHER -> PyStr(<<>>)

\* the token sequence tokenize returns for a one-line text with the given token
\* kinds in this order: the i-th token is placed at line 1, column i, and the EOF
\* token follows the last one
TokensOf(kinds) ==
    [i \in 1..(Len(kinds) + 1) |->
        IF i <= Len(kinds) THEN Token(kinds[i], TokenValue(kinds[i]), 1, i)
        ELSE Token("EOF", PyStr(<<>>), 1, i)]

\* the kinds of the token sequence the parser was given, without the EOF token
Kinds == [i \in 1..(Len(tokens) - 1) |-> tokens[i].type]

\* token kinds of the general parser specification: the statement starts and ends
\* that synchronize stops at, and tokens it skips
ParserKinds == {"INT", "IDENTIFIER", "ASSIGN", "INTEGER", "SEMICOLON", "LEFT_BRACE",
                "RIGHT_BRACE"}

\* what precedes them: nothing, or the head of a control statement up to the '{'
\* of its body (while (x) {, if (x) { } else {, for (; x; ) {)
Heads ==
    {<<>>,
     <<"WHILE", "LEFT_PAREN", "IDENTIFIER", "RIGHT_PAREN", "LEFT_BRACE">>,
     <<"IF", "LEFT_PAREN", "IDENTIFIER", "RIGHT_PAREN", "LEFT_BRACE", "RIGHT_BRACE", "ELSE",
       "LEFT_BRACE">>,
     <<"FOR", "LEFT_PAREN", "SEMICOLON", "IDENTIFIER", "SEMICOLON", "RIGHT_PAREN",
       "LEFT_BRACE">>}

\* the parser on every token sequence of at most MaxTokens tokens of these kinds,
\* at the top level and inside the body of a control statement
NextParse ==
    NextParser({TokensOf(h \o k) : h \in Heads, k \in SeqsUpTo(ParserKinds, MaxTokens)})
SpecParser == Init /\ [][NextParse]_vars

\* `id = e ;`
AssignOf(e) == <<"IDENTIFIER", "ASSIGN">> \o e \o <<"SEMICOLON">>

\* the expressions `x a y b z` for binary operators a and b
BinaryPairs ==
    {<<"IDENTIFIER", a, "IDENTIFIER", b, "IDENTIFIER">> : a, b \in BINARY_OPERATORS}

\* token kinds of expressions with unary operators and a binary operator
UnaryKinds == {"MINUS", "NOT", "IDENTIFIER", "MULTIPLY"}

\* `u ( e )` for a unary operator u
Parenthesised(e) ==
    {<<u, "LEFT_PAREN">> \o e \o <<"RIGHT_PAREN">> : u \in {"MINUS", "NOT"}}

\* the expressions of the expression specification: every `x a y b z`, every token
\* sequence e of at most MaxExprLen tokens of UnaryKinds, and every `u ( e )`
Expressions ==
    BinaryPairs \cup SeqsUpTo(UnaryKinds, MaxExprLen)
        \cup UNION {Parenthesised(e) : e \in SeqsUpTo(UnaryKinds, MaxExprLen)}

\* the parser on the assignment of each of these expressions
NextExpr == NextParser({TokensOf(AssignOf(e)) : e \in Expressions})
SpecExpr == Init /\ [][NextExpr]_vars

\* statements that lack one part, or have one token too many, by shape:
\*   missing identifier after the type   int = 1 ;      int ;
\*   missing expression                  x = ;          int x = ;
\*   missing ';'                         x = 1          int x = 1
\*   stray token                         x = 1 1 ;      ) x = 1 ;      int x x ;
Malformed ==
    [missing_identifier |-> {<<"INT", "ASSIGN", "INTEGER", "SEMICOLON">>,
                             <<"INT", "SEMICOLON">>},
     missing_expression |-> {<<"IDENTIFIER", "ASSIGN", "SEMICOLON">>,
                             <<"INT", "IDENTIFIER", "ASSIGN", "SEMICOLON">>},
     missing_semicolon |-> {<<"IDENTIFIER", "ASSIGN", "INTEGER">>,
                            <<"INT", "IDENTIFIER", "ASSIGN", "INTEGER">>},
     stray_token |-> {<<"IDENTIFIER", "ASSIGN", "INTEGER", "INTEGER", "SEMICOLON">>,
                      <<"RIGHT_PAREN", "IDENTIFIER", "ASSIGN", "INTEGER", "SEMICOLON">>,
                      <<"INT", "IDENTIFIER", "IDENTIFIER", "SEMICOLON">>}]

Shapes == DOMAIN Malformed

\* valid statements that end with ';'
ValidStatements ==
    {<<"INT", "IDENTIFIER", "SEMICOLON">>,
     <<"INT", "IDENTIFIER", "ASSIGN", "INTEGER", "SEMICOLON">>,
     <<"IDENTIFIER", "ASSIGN", "IDENTIFIER", "PLUS", "INTEGER", "SEMICOLON">>,
     <<"PRINT", "LEFT_PAREN", "IDENTIFIER", "RIGHT_PAREN", "SEMICOLON">>}

\* the programs: a malformed statement, a valid statement, a malformed statement
RecoveryPrograms ==
    {m1 \o v \o m2 : m1 \in UNION {Malformed[s] : s \in Shapes}, v \in ValidStatements,
                     m2 \in UNION {Malformed[s] : s \in Shapes}}

\* the parser on these programs
NextRecovery == NextParser({TokensOf(p) : p \in RecoveryPrograms})
SpecRecovery == Init /\ [][NextRecovery]_vars

----------------------------------------------------------------------------
(* The analyzer on whole program texts.                                           *)

\* the text  int x = 5; if (x > 3) { dikhao(x); }
EndToEndSource ==
    <<"i", "n", "t", " ", "x", " ", "=", " ", "5", ";", " ", "i", "f", " ", "(", "x", " ",
      ">", " ", "3", ")", " ", "{", " ", "d", "i", "k", "h", "a", "o", "(", "x", ")", ";",
      " ", "}">>

\* the text  int x = ;
MissingExpression ==
    <<"i", "n", "t", " ", "x", " ", "=", " ", ";">>

\* the text  int x = ; int y;
ThenDeclaration ==
    <<"i", "n", "t", " ", "x", " ", "=", " ", ";", " ", "i", "n", "t", " ", "y", ";">>

\* the text  int x = ; y = 1;
ThenAssignment ==
    <<"i", "n", "t", " ", "x", " ", "=", " ", ";", " ", "y", " ", "=", " ", "1", ";">>

\* the text  int x = ; int = 1;
ThenMalformed ==
    <<"i", "n", "t", " ", "x", " ", "=", " ", ";", " ", "i", "n", "t", " ", "=", " ", "1",
      ";">>

\* the text  likho(x);
InputSource ==
    <<"l", "i", "k", "h", "o", "(", "x", ")", ";">>

\* the text  for (i = 0; i < 3; i = i + 1) { }
ForAssignSource ==
    <<"f", "o", "r", " ", "(", "i", " ", "=", " ", "0", ";", " ", "i", " ", "<", " ", "3",
      ";", " ", "i", " ", "=", " ", "i", " ", "+", " ", "1", ")", " ", "{", " ", "}">>

\* the text  for (int i; i < 3; ) { }
ForBareDeclaration ==
    <<"f", "o", "r", " ", "(", "i", "n", "t", " ", "i", ";", " ", "i", " ", "<", " ", "3",
      ";", " ", ")", " ", "{", " ", "}">>

\* the text  x = @;
UnknownCharacter ==
    <<"x", " ", "=", " ", "@", ";">>

\* the text  int x; x = 1; while (x < 3) { x = x + 1; }
ValidProgram ==
    <<"i", "n", "t", " ", "x", ";", " ", "x", " ", "=", " ", "1", ";", " ", "w", "h", "i",
      "l", "e", " ", "(", "x", " ", "<", " ", "3", ")", " ", "{", " ", "x", " ", "=", " ",
      "x", " ", "+", " ", "1", ";", " ", "}">>

\* the text  int = 1;
InvalidDeclaration ==
    <<"i", "n", "t", " ", "=", " ", "1", ";">>

\* the text  x = ;
InvalidAssignment ==
    <<"x", " ", "=", " ", ";">>

\* the text  if (x) y = 1;
InvalidControl ==
    <<"i", "f", " ", "(", "x", ")", " ", "y", " ", "=", " ", "1", ";">>

\* the text  { x = 1;
MissingBrace ==
    <<"{", " ", "x", " ", "=", " ", "1", ";">>

\* the texts handed to analyze_source
AnalyzerSources ==
    {EndToEndSource, MissingExpression, ThenDeclaration, ThenAssignment, ThenMalformed,
     InputSource, ForAssignSource, ForBareDeclaration, UnknownCharacter, ValidProgram,
     InvalidDeclaration, InvalidAssignment, InvalidControl, MissingBrace}

\* one analyzer, MaxCalls calls of analyze_source on these texts, with the reporter
\* used by a client between the calls
NextAnalyze == NextAnalyzer(AnalyzerSources)
SpecAnalyzer == Init /\ [][NextAnalyze]_vars

----------------------------------------------------------------------------
(* The parser on control statements.                                              *)

\* `for ( init cond ; update ) body`, where init carries its own ';' in the text
ForOf(init, cond, update, body) ==
    <<"FOR", "LEFT_PAREN">> \o init \o cond \o <<"SEMICOLON">> \o update
        \o <<"RIGHT_PAREN">> \o body

\* `while ( cond ) body`
WhileOf(cond, body) == <<"WHILE", "LEFT_PAREN">> \o cond \o <<"RIGHT_PAREN">> \o body

\* `if ( cond ) body` and `if ( cond ) body else other`
IfOf(cond, body) == <<"IF", "LEFT_PAREN">> \o cond \o <<"RIGHT_PAREN">> \o body
IfElseOf(cond, body, other) == IfOf(cond, body) \o <<"ELSE">> \o other

\* the init clause of a for header: `;`, `x = 1;`, `int x = 1;`, `int x;`
EmptyInit == <<"SEMICOLON">>
AssignInit == <<"IDENTIFIER", "ASSIGN", "INTEGER", "SEMICOLON">>
DeclareInit == <<"INT", "IDENTIFIER", "ASSIGN", "INTEGER", "SEMICOLON">>
BareDeclareInit == <<"INT", "IDENTIFIER", "SEMICOLON">>
ForInits == {EmptyInit, AssignInit, DeclareInit, BareDeclareInit}

\* the update clause of a for header: nothing, `x = x + 1`
EmptyUpdate == <<>>
AssignUpdate == <<"IDENTIFIER", "ASSIGN", "IDENTIFIER", "PLUS", "INTEGER">>
ForUpdates == {EmptyUpdate, AssignUpdate}

\* conditions: `x`, `x < 1`
Conditions == {<<"IDENTIFIER">>, <<"IDENTIFIER", "LESS_THAN", "INTEGER">>}

\* bodies in braces: `{ }`, `{ x = 1; }`
EmptyBlock == <<"LEFT_BRACE", "RIGHT_BRACE">>
Blocks == {EmptyBlock,
           <<"LEFT_BRACE", "IDENTIFIER", "ASSIGN", "INTEGER", "SEMICOLON", "RIGHT_BRACE">>}

\* bodies without braces: `x = 1;`, `int x;`, `while (x) { }`
BareBodies == {<<"IDENTIFIER", "ASSIGN", "INTEGER", "SEMICOLON">>,
               <<"INT", "IDENTIFIER", "SEMICOLON">>,
               WhileOf(<<"IDENTIFIER">>, EmptyBlock)}

\* `if (x) { }`, as what follows an else
ElseIf == IfOf(<<"IDENTIFIER">>, EmptyBlock)

\* one control statement: every for, while, if and if-else built from these parts
ControlPrograms ==
    {ForOf(i, c, u, b) : i \in ForInits, c \in Conditions, u \in ForUpdates,
                         b \in Blocks \cup BareBodies}
    \cup {WhileOf(c, b) : c \in Conditions, b \in Blocks \cup BareBodies}
    \cup {IfOf(c, b) : c \in Conditions, b \in Blocks \cup BareBodies}
    \cup {IfElseOf(c, b, e) : c \in Conditions, b \in Blocks,
                              e \in Blocks \cup BareBodies \cup {ElseIf}}

\* the parser on each of them
NextControl == NextParser({TokensOf(p) : p \in ControlPrograms})
SpecControl == Init /\ [][NextControl]_vars

----------------------------------------------------------------------------
(* Claims about the scanner *)

\* the token list ends with its only EOF token, placed at the final cursor
EndsWithOnlyEOF ==
    /\ Len(tokens) >= 1
    /\ tokens[Len(tokens)].type = "EOF"
    /\ tokens[Len(tokens)].line = line
    /\ tokens[Len(tokens)].column = column
    /\ \A i \in 1..(Len(tokens) - 1) : tokens[i].type # "EOF"

\* C1: on every source text tokenize returns: every iteration of its loop consumes
\* at least one character and the cursor never passes the end of the text, so the
\* loop runs at most len(source) times, whatever malformed characters or
\* unterminated strings the text holds; and the sequence it returns is non-empty,
\* ends with an EOF token at the final cursor line and column, and holds no other
\* EOF token.
C1_TokenizeTotal ==
    /\ [][LexStep => position' > position]_vars
    /\ [](position <= Len(source))
    /\ [](lpc = "done" => EndsWithOnlyEOF)

\* C1 witness: tokenize has returned from a text with a bad character and an
\* unterminated string, and still delivered a token before EOF
C1_Witness ==
    /\ lpc = "done"
    /\ Len(tokens) >= 2
    /\ \E i \in 1..Len(errors) : errors[i].message = "Unexpected character"
    /\ \E i \in 1..Len(errors) : errors[i].message = "Unterminated string literal"

\* the two characters at 0-based position p of the source
PairAt(p) == <<source[p + 1], source[p + 2]>>

\* the iteration of tokenize that just ran found a two-character operator at its cursor
DoubleAtCursor ==
    /\ stepFrom'.position + 1 < Len(source)
    /\ PairAt(stepFrom'.position) \in DoubleChars

\* C8: whenever the two characters at the scanner cursor form <=, >=, ==, !=, && or
\* ||, that iteration of tokenize emits exactly one token, of the two-character
\* kind, and consumes both characters; so no LESS_THAN (or other one-character
\* operator) token is ever followed by the token of the character next to it when
\* the two form a two-character operator.
C8_MaximalMunch ==
    /\ [][(LexStep /\ DoubleAtCursor) =>
            /\ tokens' = Append(tokens,
                                Token(DOUBLE_CHAR_TOKENS(PairAt(stepFrom'.position)),
                                      PyStr(PairAt(stepFrom'.position)),
                                      stepFrom'.line, stepFrom'.column))
            /\ position' = stepFrom'.position + 2]_vars
    /\ [](\A i \in 1..(Len(tokens) - 1) :
            ~(/\ tokens[i].type \in {"LESS_THAN", "GREATER_THAN", "ASSIGN", "NOT"}
              /\ tokens[i + 1].type = "ASSIGN"
              /\ tokens[i + 1].line = tokens[i].line
              /\ tokens[i + 1].column = tokens[i].column + 1))

\* C8 witness: the text "<==" was scanned into LESS_EQUAL, ASSIGN, EOF
C8_Witness ==
    /\ lpc = "done"
    /\ source = <<"<", "=", "=">>
    /\ Len(tokens) = 3
    /\ tokens[1].type = "LESS_EQUAL"
    /\ tokens[2].type = "ASSIGN"

\* what the claim says a backslash followed by x stands for
EscapeMeaning(x) ==
    CASE x = "n" -> "\n"
      [] x = "t" -> "\t"
      [] x = "r" -> "\r"
      [] x = "\\" -> "\\"
      [] x = "\"" -> "\""
      [] OTHER -> x

\* the string literal whose body starts at 1-based index i of the source, read as
\* the claims describe it: closed by the first unescaped quote (end is the index of
\* that quote, text the decoded body), or not closed because an unescaped newline or
\* the end of the text comes first
RECURSIVE LiteralFrom(_, _)
LiteralFrom(i, text) ==
    IF i > Len(source) THEN [closed |-> FALSE, end |-> i, text |-> text]
    ELSE IF source[i] = "\"" THEN [closed |-> TRUE, end |-> i, text |-> text]
    ELSE IF source[i] = "\n" THEN [closed |-> FALSE, end |-> i, text |-> text]
    ELSE IF source[i] = "\\"
    THEN IF i + 1 > Len(source)
         THEN [closed |-> FALSE, end |-> i + 1, text |-> text]
         ELSE LiteralFrom(i + 2, Append(text, EscapeMeaning(source[i + 1])))
    ELSE LiteralFrom(i + 1, Append(text, source[i]))

\* the iteration of tokenize that just ran found an opening quote at its cursor
QuoteAtCursor ==
    /\ stepFrom'.position < Len(source)
    /\ source[stepFrom'.position + 1] = "\""

\* the literal opened at that quote
LiteralAtCursor == LiteralFrom(stepFrom'.position + 2, <<>>)

\* C9: a terminated string literal yields one STRING_LITERAL token whose value is
\* the body with \n, \t, \r, \\ and \" decoded to newline, tab, carriage return,
\* backslash and quote and any other backslash-x decoded to x; no error is
\* reported, and the literal ends at the first quote that is not escaped.
C9_EscapeDecoding ==
    [][(LexStep /\ QuoteAtCursor /\ LiteralAtCursor.closed) =>
          /\ tokens' = Append(tokens, Token("STRING_LITERAL", PyStr(LiteralAtCursor.text),
                                            stepFrom'.line, stepFrom'.column))
          /\ errors' = errors
          /\ position' = LiteralAtCursor.end]_vars

\* C9 witness: the literal "\nq" was scanned into the value newline, q, and the
\* literal "\"" into the value quote
C9_Witness ==
    /\ lpc = "done"
    /\ errors = <<>>
    /\ \/ source = <<"\"", "\\", "n", "q", "\"">> /\ tokens[1].value = PyStr(<<"\n", "q">>)
       \/ source = <<"\"", "\\", "\"", "\"">> /\ tokens[1].value = PyStr(<<"\"">>)

\* C10: a string literal with no closing quote (ended by an unescaped newline or by
\* the end of the text, also right after a backslash or after an escaped newline)
\* reports exactly one error, "Unterminated string literal", whose line and column
\* are those of the opening quote.
C10_UnterminatedAtOpeningQuote ==
    [][(LexStep /\ QuoteAtCursor /\ ~LiteralAtCursor.closed) =>
          errors' = Append(errors, LexicalError("Unterminated string literal",
                                                stepFrom'.line, stepFrom'.column, ""))]_vars

----------------------------------------------------------------------------
(* Claims about the parser *)

\* the token under the cursor
CursorToken == tokens[ppos + 1]

\* the kinds at which synchronize stops
StopKinds == SyncTokens \cup {"EOF"}

\* C2: Parser.parse terminates on every token sequence that ends with EOF.  The
\* cursor never passes the EOF token; a pass of the top-level loop that parses a
\* statement moves the cursor forward; a pass that ends in recovery leaves the
\* cursor beyond the token the pass started at, or on EOF; and no pass of the loop
\* of parse_block returns with the cursor where it was (which would repeat for
\* ever).  So the distance from the cursor to EOF shrinks with every pass, and the
\* loop ends when it is zero.
C2_ParseTerminates ==
    /\ [][ParseStatement => /\ ppc' # "hang"
                            /\ ppos' >= ppos
                            /\ (ppc' = "loop" => ppos' > ppos)]_vars
    /\ [][Synchronize => /\ ppc' = "loop"
                         /\ (ppos' > stmtStart \/ tokens[ppos' + 1].type = "EOF")]_vars
    /\ [](ppc \in {"loop", "sync", "done"} => ppos <= Len(tokens) - 1)
    /\ [](ppc = "done" => CursorToken.type = "EOF")

\* parse has returned for `while ( x ) { int x ; = ...`: the block loop parsed a
\* statement, the next one raised, and the top-level loop recovered
C2_Witness ==
    /\ ppc = "done"
    /\ Len(tokens) >= 10
    /\ tokens[1].type = "WHILE"
    /\ tokens[6].type = "INT"
    /\ tokens[9].type = "ASSIGN"
    /\ syncCalls >= 1
    /\ Len(errors) >= 1
    /\ errors[1].column = 9

\* C3: a malformed statement, a valid statement that ends with ';', and another
\* malformed statement give exactly two reported errors, for every shape of the
\* malformed statements
C3_TwoErrors == (ppc = "done" /\ Kinds \in RecoveryPrograms) => Len(errors) = 2

\* C4 as claimed: every call of synchronize by the top-level loop moves the cursor
\* forward by at least one token
C4_RecoveryAdvances == [][Synchronize => ppos' >= ppos + 1]_vars

\* C4, amended: every call of synchronize by the top-level loop moves the cursor
\* forward by at least one token, unless the cursor is already on the last token
\* (EOF), where it stays
C4_RecoveryAdvancesUnlessAtEnd ==
    [][Synchronize => IF ppos = Len(tokens) - 1 THEN ppos' = ppos ELSE ppos' >= ppos + 1]_vars

\* two recoveries: the second after an error raised on the EOF token, which left
\* the cursor there; the first moved it
C4_Witness ==
    /\ ppc = "loop"
    /\ syncCalls = 2
    /\ Len(errors) = 2
    /\ errors[1].column = 1
    /\ errors[2].column = Len(tokens)
    /\ ppos = Len(tokens) - 1

\* C5: when synchronize returns, the token under the cursor is a synchronizing
\* token or EOF; every token it discarded after the first one was neither; and the
\* top-level loop goes on from that token with nothing else changed
C5_SynchronizeStopsAtSyncToken ==
    [][Synchronize => /\ tokens[ppos' + 1].type \in StopKinds
                      /\ \A i \in (ppos + 2)..ppos' : tokens[i].type \notin StopKinds
                      /\ ppc' = "loop"
                      /\ UNCHANGED <<tokens, errors, statements>>]_vars

\* after an error at the first token, synchronize discarded that token and at least
\* two more and stopped at a synchronizing token
C5_Witness ==
    /\ ppc = "loop"
    /\ syncCalls = 1
    /\ Len(statements) = 0
    /\ Len(errors) = 1
    /\ errors[1].column = 1
    /\ ppos >= 3
    /\ CursorToken.type \in SyncTokens

\* the expression of `v = e ;` in the tree parse returned: the field `expression`
\* of the one statement in the field `statements` of the Program node (None when
\* the tree has no such node)
ParsedExpression ==
    IF ast.class = "Program" /\ ast.statements.class = "list"
    THEN IF Len(ast.statements.items) = 1 /\ ast.statements.items[1].class = "Assignment"
         THEN ast.statements.items[1].expression
         ELSE PyNone
    ELSE PyNone

\* n is a binary node with operator op
IsBinary(n, op) == n.class = "BinaryExpression" /\ n.operator = PyTokenType(op)

\* n is a unary node with operator op
IsUnary(n, op) == n.class = "UnaryExpression" /\ n.operator = PyTokenType(op)

\* n is the Identifier node of the token at this column
IsOperand(n, col) == n.class = "Identifier" /\ n.column = PyInt(col)

\* C6: for every expression `x a y b z` with binary operators a and b: if
\* OPERATOR_PRECEDENCE[b] > OPERATOR_PRECEDENCE[a] the root is the a-node, its left
\* child x and its right child the b-node over y and z; otherwise the root is the
\* b-node, its right child z and its left child the a-node over x and y
C6_PrecedenceAndAssociativity ==
    \A a, b \in BINARY_OPERATORS :
        (ppc = "done"
            /\ Kinds = AssignOf(<<"IDENTIFIER", a, "IDENTIFIER", b, "IDENTIFIER">>))
        => LET root == ParsedExpression IN
           IF OPERATOR_PRECEDENCE(b) > OPERATOR_PRECEDENCE(a)
           THEN /\ IsBinary(root, a)
                /\ IsOperand(root.left, 3)
                /\ IsBinary(root.right, b)
                /\ IsOperand(root.right.left, 5)
                /\ IsOperand(root.right.right, 7)
           ELSE /\ IsBinary(root, b)
                /\ IsOperand(root.right, 7)
                /\ IsBinary(root.left, a)
                /\ IsOperand(root.left.left, 3)
                /\ IsOperand(root.left.right, 5)

\* no unary node of the tree under n has a binary node as its operand
RECURSIVE NoBinaryOperand(_)
NoBinaryOperand(n) ==
    IF n.class = "UnaryExpression"
    THEN n.operand.class # "BinaryExpression" /\ NoBinaryOperand(n.operand)
    ELSE IF n.class = "BinaryExpression"
    THEN NoBinaryOperand(n.left) /\ NoBinaryOperand(n.right)
    ELSE TRUE

\* C7: `- a * b` is the binary '*' of the unary '-' of a, and b; `! - a` is the
\* unary '!' of the unary '-' of a; and in the tree of an expression without
\* parentheses (which is an expression: a unary or binary node, a name or a
\* literal) no unary node has a binary node as its operand
C7_UnaryBindsTighter ==
    /\ (ppc = "done" /\ Kinds = AssignOf(<<"MINUS", "IDENTIFIER", "MULTIPLY", "IDENTIFIER">>))
       => /\ IsBinary(ParsedExpression, "MULTIPLY")
          /\ IsUnary(ParsedExpression.left, "MINUS")
          /\ IsOperand(ParsedExpression.left.operand, 4)
          /\ IsOperand(ParsedExpression.right, 6)
    /\ (ppc = "done" /\ Kinds = AssignOf(<<"NOT", "MINUS", "IDENTIFIER">>))
       => /\ IsUnary(ParsedExpression, "NOT")
          /\ IsUnary(ParsedExpression.operand, "MINUS")
          /\ IsOperand(ParsedExpression.operand.operand, 5)
    /\ (ppc = "done" /\ errors = <<>> /\ \A i \in 1..Len(Kinds) : Kinds[i] # "LEFT_PAREN")
       => /\ ParsedExpression.class \in {"UnaryExpression", "BinaryExpression", "Identifier"}
          /\ NoBinaryOperand(ParsedExpression)

----------------------------------------------------------------------------
(* Claims about whole analyses                                                    *)

\* v is a Python list of n items
IsListOf(v, n) == v.class = "list" /\ Len(v.items) = n

\* the first analysis of the text src has returned
Analysed(src) == apc = "returned" /\ source = src

\* C11: the text  int x = 5; if (x > 3) { dikhao(x); }  is analysed with zero errors
\* into a Program whose statements are a DeclareAndAssignNode and then an
\* IfStatement with a GREATER_THAN BinaryExpression as condition, a Block holding
\* exactly one PrintNode over the single expression Identifier x as then-branch,
\* and None as else-branch
C11_EndToEnd ==
    Analysed(EndToEndSource) =>
        /\ errors = <<>>
        /\ ast.class = "Program"
        /\ IsListOf(ast.statements, 2)
        /\ ast.statements.items[1].class = "DeclareAndAssignNode"
        /\ LET node == ast.statements.items[2] IN
             /\ node.class = "IfStatement"
             /\ IsBinary(node.condition, "GREATER_THAN")
             /\ node.then_statement.class = "Block"
             /\ IsListOf(node.then_statement.statements, 1)
             /\ LET print == node.then_statement.statements.items[1] IN
                  /\ print.class = "PrintNode"
                  /\ IsListOf(print.expressions, 1)
                  /\ print.expressions.items[1].class = "Identifier"
                  /\ print.expressions.items[1].name = PyStr(<<"x">>)
             /\ node.else_statement = PyNone

\* C12: when parse has returned and the reporter holds no error, the result is a
\* Program, the cursor is on the EOF token (the last token), no token was discarded
\* by synchronize, and Program.statements is the list of the statements that
\* parse_program collected, in the order it parsed them
C12_CompleteProgram ==
    (ppc = "done" /\ errors = <<>>) =>
        /\ ast.class = "Program"
        /\ ppos = Len(tokens) - 1
        /\ CursorToken.type = "EOF"
        /\ syncCalls = 0
        /\ ast.statements = PyList(statements)

\* the reporter holds a SyntaxError with this message at this line and column
SyntaxErrorAt(message, eline, ecolumn) ==
    \E i \in 1..Len(errors) :
        /\ errors[i].kind = "SyntaxError"
        /\ errors[i].message = message
        /\ errors[i].line = eline
        /\ errors[i].column = ecolumn

\* C13: the text  int x = ;  alone or followed by another statement, gives a
\* SyntaxError 'Expected expression' at the ';' (line 1, column 9); a valid
\* statement after it (int y;  or  y = 1;) is parsed, as the only statement that
\* parse_program collects; a malformed one after it (int = 1;) gets a SyntaxError
\* of its own at its '=' (column 15)
C13_RecoversAfterMissingExpression ==
    /\ (apc = "returned" /\ source \in {MissingExpression, ThenDeclaration, ThenAssignment,
                                        ThenMalformed})
       => SyntaxErrorAt("Expected expression", 1, 9)
    /\ Analysed(ThenDeclaration)
       => Len(statements) = 1 /\ statements[1].class = "DeclareNode"
    /\ Analysed(ThenAssignment)
       => Len(statements) = 1 /\ statements[1].class = "Assignment"
    /\ Analysed(ThenMalformed)
       => SyntaxErrorAt("Expected identifier after type", 1, 15)

\* the token at the cursor starts one of the statement forms of parse_statement
StartsStatement ==
    \/ CursorToken.type \in {"INT", "BOOL", "STRING", "IF", "WHILE", "FOR", "LEFT_BRACE",
                             "PRINT", "INPUT"}
    \/ CursorToken.type = "IDENTIFIER" /\ tokens[ppos + 2].type = "ASSIGN"

\* C14: a parse_statement call of parse_program made at a token that starts no
\* statement form raises, leaves the cursor on that token, and adds exactly one
\* error to the reporter, a SyntaxError 'Invalid statement' with the line and
\* column of that token
C14_InvalidStatement ==
    [][(ParseStatement /\ ~StartsStatement) =>
          /\ ppc' = "sync"
          /\ ppos' = ppos
          /\ Len(errors') = Len(errors) + 1
          /\ errors'[Len(errors')].kind = "SyntaxError"
          /\ errors'[Len(errors')].message = "Invalid statement"
          /\ errors'[Len(errors')].line = CursorToken.line
          /\ errors'[Len(errors')].column = CursorToken.column]_vars

\* C15: the text  likho(x);  (the input statement as parse_input_statement spells
\* it) is scanned into an INPUT token followed by ( x ) ; and analysed with zero
\* errors into one statement, an InputNode whose identifier is x
C15_InputStatement ==
    Analysed(InputSource) =>
        /\ tokens[1].type = "INPUT"
        /\ errors = <<>>
        /\ Len(statements) = 1
        /\ statements[1].class = "InputNode"
        /\ PyStr(<<"x">>) \in {statements[1].line, statements[1].identifier}

----------------------------------------------------------------------------
(* Claims about control statements                                                *)

\* what a clause of a for header becomes: an Assignment node, or None when the
\* clause is empty
ClauseIs(node, clause) ==
    IF clause \in {EmptyInit, EmptyUpdate} THEN node = PyNone ELSE node.class = "Assignment"

\* C16: a for statement with a block as body, whose init clause is an assignment
\* or empty and whose update clause is an assignment or empty, is parsed with zero
\* errors into one ForStatement; its init and its update are Assignment nodes, or
\* None for an empty clause
C16_ForWithAssignments ==
    \A i \in {EmptyInit, AssignInit}, c \in Conditions, u \in ForUpdates, b \in Blocks :
        (ppc = "done" /\ Kinds = ForOf(i, c, u, b)) =>
            /\ errors = <<>>
            /\ Len(statements) = 1
            /\ statements[1].class = "ForStatement"
            /\ ClauseIs(statements[1].init, i)
            /\ ClauseIs(statements[1].update, u)

ASTClasses ==
    {"Program", "Assignment", "IfStatement", "WhileStatement", "ForStatement", "Block",
     "BinaryExpression", "UnaryExpression", "Identifier", "IntegerLiteral", "BooleanLiteral",
     "StringLiteral", "DeclareNode", "DeclareAndAssignNode", "PrintNode"}

\* in the value v and in everything reachable from it through fields and list
\* items: the then_statement of an IfStatement is a Block, its else_statement is
\* None, a Block or an IfStatement, and the body of a WhileStatement or a
\* ForStatement is a Block
RECURSIVE ControlShaped(_)
ControlShaped(v) ==
    IF v.class = "list" THEN \A i \in 1..Len(v.items) : ControlShaped(v.items[i])
    ELSE IF v.class \notin ASTClasses THEN TRUE
    ELSE /\ v.class = "IfStatement"
            => /\ v.then_statement.class = "Block"
               /\ v.else_statement.class \in {"NoneType", "Block", "IfStatement"}
         /\ v.class \in {"WhileStatement", "ForStatement"} => v.body.class = "Block"
         /\ \A f \in DOMAIN v \ {"class"} : ControlShaped(v[f])

\* the control statements whose body, or whose else part, has no braces (the for
\* statements among them with an init clause that parses)
Unbraced ==
    {WhileOf(c, b) : c \in Conditions, b \in BareBodies}
    \cup {IfOf(c, b) : c \in Conditions, b \in BareBodies}
    \cup {IfElseOf(c, k, b) : c \in Conditions, k \in Blocks, b \in BareBodies}
    \cup {ForOf(i, c, u, b) : i \in {EmptyInit, DeclareInit}, c \in Conditions,
                              u \in ForUpdates, b \in BareBodies}

\* the messages of the SyntaxError for a body that does not start with '{'
BraceMessages ==
    {"Expected '{' to start the body of 'agar' statement",
     "Expected '{' to start the body of 'varna' statement",
     "Expected '{' to start the body of 'jabtak' statement",
     "Expected '{' to start the body of 'tabtak' statement"}

\* a control statement without braces got a SyntaxError about the missing '{'
\* and no if, while or for node was collected
UnbracedRejected ==
    (ppc = "done" /\ Kinds \in Unbraced) =>
        /\ \E i \in 1..Len(errors) :
              errors[i].kind = "SyntaxError" /\ errors[i].message \in BraceMessages
        /\ \A j \in 1..Len(statements) :
              statements[j].class \notin {"IfStatement", "WhileStatement", "ForStatement"}

\* C18: the tree that parse returns has a Block as the then-branch of every
\* IfStatement, None, a Block or an IfStatement as its else-branch, and a Block as
\* the body of every WhileStatement and ForStatement; a control statement whose
\* body does not start with '{' gets a SyntaxError and gives no node
C18_BodiesAreBlocks ==
    /\ ppc = "done" => ControlShaped(ast)
    /\ UnbracedRejected

----------------------------------------------------------------------------
(* Claims about the analyzer                                                      *)

\* when analyze_source has returned, its result is True if the reporter holds no
\* error and False if it holds one or more
ResultIsNoErrors == apc = "returned" => result = PyBool(errors = <<>>)

\* programs of the language: declarations, assignments, print, if, while, and a
\* for statement with an assignment as init clause
ValidSources == {EndToEndSource, ValidProgram, ForAssignSource}

\* programs with an invalid declaration, an invalid assignment, an invalid control
\* statement (a body without braces, a for header with a declaration without
\* initializer) or a missing closing brace
InvalidSources ==
    {InvalidDeclaration, MissingExpression, InvalidAssignment, InvalidControl,
     ForBareDeclaration, MissingBrace}

\* C19: analyze_source returns True when the reporter holds no error after the
\* scanner and the parser have run, and False otherwise; it returns True for each
\* valid program and False for each invalid one
C19_ResultReflectsErrors ==
    /\ ResultIsNoErrors
    /\ \A src \in ValidSources : Analysed(src) => result = PyBool(TRUE)
    /\ \A src \in InvalidSources : Analysed(src) => result = PyBool(FALSE)

\* the errors that one analysis of the text in `source` reports when it starts
\* with an empty reporter: those of the scanner if there are any, else those of
\* the parser on the scanner's tokens
FreshErrors ==
    LET lexed == tokenize(<<>>) IN
    IF has_errors(lexed.errors) THEN lexed.errors
    ELSE parse_program(PState(0, <<>>), <<>>).ps.errs

\* C20: after every analyze_source call of a sequence of calls on one analyzer,
\* whatever was analysed and whatever the reporter held before the call, the
\* reporter holds exactly the errors that an analysis of this call's text alone
\* reports, it holds no warning (a call reports none), and the result is True if
\* and only if that analysis reports no error
C20_CallsAreIndependent ==
    apc = "returned" =>
        /\ tokens = tokenize(<<>>).tokens
        /\ errors = FreshErrors
        /\ warnings = <<>>
        /\ result = PyBool(FreshErrors = <<>>)

\* a second call has returned with the one lexical error of its text, after a
\* first call that reported syntax errors (it left a Program without statements)
C20_Witness ==
    /\ apc = "returned"
    /\ calls = 2
    /\ source = UnknownCharacter
    /\ ast.class = "Program"
    /\ ast.line = PyList(<<>>)
    /\ Len(errors) = 1
    /\ errors[1].kind = "LexicalError"
    /\ result = PyBool(FALSE)

\* C21: when an analyze_source call has returned, the analyzer's ast is None or
\* the Program that the parser of this call returned; after a call that stopped
\* with lexical errors (no parser was constructed) it is None
C21_AstOfThisCall ==
    apc = "returned" =>
        \/ ast = PyNone
        \/ ppc = "done" /\ ast = Program(PyList(statements), PyInt(1), PyInt(1))

----------------------------------------------------------------------------
(* Claims about the parser's error handling                                       *)

\* C22: no parse_statement call of parse_program hangs or ends parse with an
\* exception.  When its try block raises something that is neither a SyntaxError
\* nor a ParseError, exactly one error is added to what the try block reported, a
\* ParseError 'Error parsing statement' at the token the cursor is on, and the
\* top-level loop goes on to synchronize; a SyntaxError or ParseError is not
\* reported again
C22_InternalFailuresBecomeParseErrors ==
    [][ParseStatement =>
          LET d == statement_dispatch(PState(ppos, errors)) IN
          /\ ppc' \in {"loop", "sync"}
          /\ Escapes(d) =>
                /\ ppc' = "sync"
                /\ ppos' = d.ps.pos
                /\ errors' = Append(d.ps.errs,
                                    ParseError("Error parsing statement",
                                               tokens[d.ps.pos + 1].line,
                                               tokens[d.ps.pos + 1].column))
          /\ (~d.ok /\ ~d.hang /\ ~Escapes(d)) => (ppc' = "sync" /\ errors' = d.ps.errs)]_vars

\* a statement has just failed with an internal error: the reporter's last error
\* is the ParseError made from it, and recovery is about to run
C22_Witness ==
    /\ ppc = "sync"
    /\ Len(errors) >= 2
    /\ errors[Len(errors)].kind = "ParseError"
    /\ errors[Len(errors)].message = "Error parsing statement"
    /\ errors[Len(errors)].column = tokens[ppos + 1].column

\* C23: a parse_statement call of parse_program that adds a node to the statement
\* list reported no error, in any routine under it, and every error reported
\* before it is at a token before the first token of the node (the column of a
\* token is its index); a call that reported an error adds no node
C23_NoNodeFromFailedChild ==
    [][ParseStatement =>
          /\ statements' # statements =>
                /\ errors' = errors
                /\ \A i \in 1..Len(errors) : errors[i].column <= ppos
          /\ errors' # errors => statements' = statements]_vars

\* a statement inside the body of a while statement failed, and parse returned a
\* Program: the WhileStatement and its Block were not built, a later statement was
\* collected
C23_Witness ==
    /\ ppc = "done"
    /\ Len(tokens) > 5
    /\ tokens[1].type = "WHILE"
    /\ Len(errors) >= 1
    /\ errors[1].column > 5
    /\ Len(statements) >= 1
    /\ \A j \in 1..Len(statements) : statements[j].class # "WhileStatement"

----------------------------------------------------------------------------
(* Claims about positions and bad characters in the scanner                      *)

\* the 1-based indexes of the newlines among the first p characters of the source
NewlinesBefore(p) == {i \in 1..p : source[i] = "\n"}

\* the line of the character at 0-based position p: one plus the number of
\* newlines before it
LineAt(p) == 1 + Cardinality(NewlinesBefore(p))

\* its column: one plus the number of characters between the last newline before
\* it (or the start of the text) and it
ColumnAt(p) ==
    LET last == IF NewlinesBefore(p) = {} THEN 0
                ELSE CHOOSE i \in NewlinesBefore(p) : \A j \in NewlinesBefore(p) : j <= i
    IN  1 + (p - last)

\* the character at 0-based position p can be the first character of token t
StartsAt(t, p) ==
    /\ p < Len(source)
    /\ CASE t.type = "STRING_LITERAL" -> source[p + 1] = "\""
         [] t.type = "INTEGER" -> isdigit(source[p + 1])
         [] OTHER -> Len(t.value.value) >= 1 /\ t.value.value[1] = source[p + 1]

\* C24: the scanner's cursor always has the line and the column of its position
\* in the text; every token that an iteration of tokenize emits begins at the
\* character the cursor was on after skip_whitespace and carries the line and
\* column of that character; the EOF token carries those of the end of the text
C24_TokenPositions ==
    /\ [](lpc # "idle" => line = LineAt(position) /\ column = ColumnAt(position))
    /\ [][(LexStep /\ tokens' # tokens) =>
             LET t == tokens'[Len(tokens')]
                 p == stepFrom'.position
             IN  /\ tokens' = Append(tokens, t)
                 /\ StartsAt(t, p)
                 /\ t.line = LineAt(p)
                 /\ t.column = ColumnAt(p)]_vars
    /\ [][LexEOF =>
             /\ tokens'[Len(tokens')].line = LineAt(Len(source))
             /\ tokens'[Len(tokens')].column = ColumnAt(Len(source))]_vars

\* tokenize has returned a token that is on the second line and not in its first
\* column, after a comment or a string on the first line
C24_Witness ==
    /\ lpc = "done"
    /\ \E i \in 1..(Len(tokens) - 1) : tokens[i].line = 2 /\ tokens[i].column = 2
    /\ source[1] \in {"/", "\""}

\* the character at the cursor lx starts no token: it is no newline, quote, digit
\* or letter and no operator or punctuation character, alone or with the next one
StartsNoToken(lx) ==
    LET char == current_char(lx) IN
    /\ char # NoChar
    /\ char \notin Blanks \cup {"\n", "\""}
    /\ ~isdigit(char)
    /\ ~isalpha(char)
    /\ char \notin SingleChars
    /\ peek_char(lx) # NoChar => <<char, peek_char(lx)>> \notin DoubleChars

\* C25: an iteration of tokenize that finds, after the blanks, a character that
\* starts no token adds exactly one error to the reporter, a LexicalError
\* 'Unexpected character' with that character and its line and column, emits no
\* token, and leaves the cursor one character further on the same line: where
\* skipping a blank at this place leaves it, so that the rest of the text is
\* scanned as if the character had been a blank
C25_BadCharacterSkipped ==
    [][LET lx == skip_whitespace(Cursor(position, line, column)) IN
       (LexStep /\ StartsNoToken(lx)) =>
           /\ errors' = Append(errors, LexicalError("Unexpected character", lx.line,
                                                    lx.column, current_char(lx)))
           /\ tokens' = tokens
           /\ position' = lx.position + 1
           /\ line' = lx.line
           /\ column' = lx.column + 1]_vars

\* tokenize has returned: one bad character was reported and the text after it
\* gave a token
C25_Witness ==
    /\ lpc = "done"
    /\ Len(errors) = 1
    /\ errors[1].message = "Unexpected character"
    /\ errors[1].char = "&"
    /\ Len(tokens) >= 2
    /\ tokens[1].column > errors[1].column

----------------------------------------------------------------------------
(* Claims about the parser's cursor and its use of the reporter                  *)

\* the token kinds that the parser passes to consume
ConsumeKinds == {"ASSIGN", "LEFT_PAREN", "RIGHT_PAREN", "RIGHT_BRACE", "SEMICOLON"}

\* what consume(k, message) does in the current parser state, for every kind k
\* that the parser consumes: on a token of kind k it returns that token, moves
\* the cursor by one and leaves the reporter alone; on another token it leaves
\* the cursor, adds one SyntaxError with the token's line and column, expected k
\* and found the token's kind and value, and raises this error
ConsumeContract ==
    \A k \in ConsumeKinds :
        LET cur == tokens[ppos + 1]
            r == consume(PState(ppos, errors), k, "message")
        IN  IF cur.type = k
            THEN /\ r.ok
                 /\ r.node = cur
                 /\ r.ps.pos = ppos + 1
                 /\ r.ps.errs = errors
            ELSE /\ ~r.ok /\ ~r.hang
                 /\ r.ps.pos = ppos
                 /\ Len(r.ps.errs) = Len(errors) + 1
                 /\ SubSeq(r.ps.errs, 1, Len(errors)) = errors
                 /\ r.exc = r.ps.errs[Len(r.ps.errs)]
                 /\ r.exc.kind = "SyntaxError"
                 /\ r.exc.line = cur.line
                 /\ r.exc.column = cur.column
                 /\ r.exc.expected = k
                 /\ r.exc.found = <<cur.type, cur.value>>

\* C26: in every state of a parse consume behaves as ConsumeContract says; and
\* when a parse_statement call of parse_program ends with an error of consume as
\* the last one reported, it reported nothing else, the top-level loop goes on to
\* synchronize with the cursor still on the token of the error, and no statement
\* is added
C26_Consume ==
    /\ [](ppc \in {"loop", "sync", "done"} => ConsumeContract)
    /\ [][(ParseStatement /\ errors' # errors
             /\ errors'[Len(errors')].expected \in ConsumeKinds) =>
             /\ ppc' = "sync"
             /\ errors' = Append(errors, errors'[Len(errors')])
             /\ tokens[ppos' + 1].line = errors'[Len(errors')].line
             /\ tokens[ppos' + 1].column = errors'[Len(errors')].column
             /\ statements' = statements]_vars

\* after a statement that was parsed (its ';' was consumed), a statement has just
\* failed in consume on a missing ';'
C26_Witness ==
    /\ ppc = "sync"
    /\ Len(statements) >= 1
    /\ errors # <<>>
    /\ errors[Len(errors)].expected = "SEMICOLON"
    /\ tokens[ppos + 1].type # "EOF"

\* C27: the parser of an analyze_source call is constructed only after tokenize
\* has returned with no error in the reporter; when the scanner reported an
\* error the call returns False and no parser runs; so the reporter never holds a
\* lexical error while a parser exists, and never lexical and parser errors
\* together
C27_PhasesGated ==
    /\ [][AfterLexing =>
             /\ lpc = "done"
             /\ IF errors = <<>> THEN apc' = "parsing" /\ ppc' = "loop"
                ELSE apc' = "returned" /\ result' = PyBool(FALSE) /\ ppc' = "idle"]_vars
    /\ [](apc \in {"lexing", "parsing", "returned"} =>
             /\ ppc # "idle" => lpc = "done"
             /\ (\E i \in 1..Len(errors) : errors[i].kind = "LexicalError")
                => (ppc = "idle"
                    /\ \A i \in 1..Len(errors) : errors[i].kind = "LexicalError"))

\* a first call has returned False from the lexical phase: the text  x = @;  has a
\* bad character, and without it a statement that the parser rejects; only the
\* lexical error is held and no parser ran
C27_Witness ==
    /\ apc = "returned"
    /\ calls = 1
    /\ source = UnknownCharacter
    /\ result = PyBool(FALSE)
    /\ ppc = "idle"
    /\ ast = PyNone
    /\ Len(errors) = 1
    /\ errors[1].kind = "LexicalError"

\* C28: while a parser exists its token sequence is not empty and its cursor is an
\* index of it, 0 <= position <= len(tokens) - 1; advance, the only writer of the
\* cursor, keeps it there and never moves it back, and so no step of the parser
\* moves it back; current_token returns the token at the cursor and peek_token a
\* token of the sequence, which is the last one (EOF) when the cursor is on the
\* last token
C28_CursorInRange ==
    /\ [](ppc # "idle" =>
             /\ tokens # <<>>
             /\ 0 <= ppos
             /\ ppos <= Len(tokens) - 1
             /\ \A p \in 0..(Len(tokens) - 1) :
                    /\ parser_advance(PState(p, errors)).pos >= p
                    /\ parser_advance(PState(p, errors)).pos <= Len(tokens) - 1
             /\ current_token(PState(ppos, errors)) = tokens[ppos + 1]
             /\ \E i \in 1..Len(tokens) : peek_token(PState(ppos, errors)) = tokens[i]
             /\ ppos = Len(tokens) - 1 =>
                    /\ peek_token(PState(ppos, errors)) = tokens[Len(tokens)]
                    /\ peek_token(PState(ppos, errors)).type = "EOF")
    /\ [][(ParseStatement \/ Synchronize \/ ParseReturn) => ppos' >= ppos]_vars

\* parse has returned after a statement and a recovery, with the cursor on the last
\* of at least four tokens, where peek_token would pass the end
C28_Witness ==
    /\ ppc = "done"
    /\ Len(tokens) >= 4
    /\ ppos = Len(tokens) - 1
    /\ Len(statements) >= 1
    /\ syncCalls >= 1
    /\ peek_token(PState(ppos, errors)) = tokens[Len(tokens)]

\* C29: when parse has returned a Program, the reporter holds as many errors as
\* synchronize was called by the loop of parse_program; every statement that fails
\* adds exactly one error and is followed by exactly one call of synchronize, also
\* when the error is raised inside a block or an expression
C29_OneErrorOneRecovery ==
    /\ [](ppc \in {"loop", "done"} /\ (ppc = "done" => ast # PyNone)
             => Len(errors) = syncCalls)
    /\ [](ppc = "sync" => Len(errors) = syncCalls + 1)
    /\ [][ParseStatement /\ ppc' = "sync" => Len(errors') = Len(errors) + 1]_vars
    /\ [][ParseStatement /\ ppc' = "loop" => errors' = errors]_vars
    /\ [][Synchronize => errors' = errors /\ syncCalls' = syncCalls + 1]_vars

\* parse has returned a Program after two failed statements and two recoveries; the
\* first error was raised inside the block of a while statement
C29_Witness ==
    /\ ppc = "done"
    /\ ast # PyNone
    /\ syncCalls = 2
    /\ Len(errors) = 2
    /\ tokens[1].type = "WHILE"
    /\ tokens[5].type = "LEFT_BRACE"
    /\ errors[1].column >= 6

====
